---- MODULE Spec2Model ----
(***************************************************************************)
(* Simulation, gas-estimation and tracing pipeline of the EVM keeper       *)
(* (Keeper.EthCall, Keeper.EstimateGas, Keeper.TraceTx, Keeper.TraceBlock, *)
(* Keeper.traceTx) modelled as state machines.                             *)
(*                                                                         *)
(* The message executor (Keeper.ApplyMessageWithConfig), the binary search *)
(* helper (types.BinSearch) and the tracer implementations are not part of *)
(* the source files at hand; they are modelled from their documented       *)
(* contract and every such definition says so in its comment.              *)
(***************************************************************************)
EXTENDS Integers, Sequences, FiniteSets, TLC

(***************************************************************************)
(* Program constants and the bounds of the model.                          *)
(***************************************************************************)
\* ethparams.TxGas, the protocol minimum transaction gas.
TxGas == 21000

\* Gas values range over TxGas - 2 .. TxGas + MaxExtraGas.
MaxExtraGas == 4

MaxGasValue == TxGas + MaxExtraGas

(***************************************************************************)
(* Values exchanged with the message executor.                             *)
(***************************************************************************)
NoErr == "<nil>"
ErrIntrinsicGas == "intrinsic gas too low"
ErrExecOther == "nonce too low"

VmOk == ""
VmErrExecutionReverted == "execution reverted"
VmErrOutOfGas == "out of gas"
VmErrOther == "invalid opcode"

VmErrors == {VmOk, VmErrExecutionReverted, VmErrOutOfGas, VmErrOther}

\* What one invocation of ApplyMessageWithConfig can do: panic, return an
\* error, or return a response carrying a VM error string (empty on success).
ExecOutcomes ==
    {[panic |-> TRUE, err |-> NoErr, VmError |-> VmOk]}
    \cup {[panic |-> FALSE, err |-> e, VmError |-> VmOk] : e \in {ErrIntrinsicGas, ErrExecOther}}
    \cup {[panic |-> FALSE, err |-> NoErr, VmError |-> v] : v \in VmErrors}

(***************************************************************************)
(* gRPC status errors and plain errors returned by the handlers.           *)
(***************************************************************************)
StatusError(code, msg) == [code |-> code, msg |-> msg]
PlainError(msg) == [code |-> "", msg |-> msg]

NoResult == [kind |-> "none"]
ErrorResult(e) == [kind |-> "error", err |-> e]
GasResult(g) == [kind |-> "gas", gas |-> g]
PanicResult == [kind |-> "panic"]

VARIABLES
    \* ---- Keeper.EstimateGas ----
    estPc,            \* position inside EstimateGas
    estReq,           \* the request: GasCap, args.Gas, block max gas, faults
    lo,               \* lower bound of the search (exclusive)
    hi,               \* upper bound of the search (inclusive)
    gasCap,           \* the cap fixed before the search
    executor,         \* the executor's answers so far: gas -> outcome
    probes,           \* gas limits handed to the executor, in order
    estCtx,           \* writes present in the request context
    probeScopes,      \* per probe: the state its context started from and its commit flag
    estResult,        \* what EstimateGas returned
    \* ---- Keeper.EthCall, one entry per request in flight ----
    callPc,           \* position inside EthCall
    callReq,          \* the request's fault, if any
    callOverlay,      \* the call's uncommitted StateDB write: <<>> or <<v>>
    callObserved,     \* the value the call's last state read returned
    callBase,         \* number of committing operations completed when the call was issued
    callResult,       \* what EthCall returned
    \* ---- Keeper.TraceTx, Keeper.TraceBlock and Keeper.traceTx ----
    trPc,             \* position inside the trace handler
    trReq,            \* the request: handler, fault, trace configuration, number of transactions
    txs,              \* the request's transactions read so far, in order
    txConfig,         \* the handler's TxConfig accumulator: TxIndex, LogIndex
    results,          \* TraceBlock's results so far
    trResult,         \* what the handler returned
    ctxState,         \* transactions whose effects are in the request context
    cacheState,       \* transactions whose effects are in traceTx's cache context
    ttTxConfig,       \* the TxConfig traceTx was called with
    ttLogs,           \* number of logs in the response of traceTx's execution
    ttReturns,        \* what each traceTx call returned, in order
    deadlines,        \* the deadline context of each traceTx call
    watchers,         \* the watcher goroutine of each traceTx call
    tracerStop,       \* whether Stop was called on the tracer of each traceTx call
    reqCtx,           \* the request's context.Context: live or canceled
    tracerBuilt,      \* the tracer the current traceTx call constructed: <<>> or <<[Tracer, Config]>>
    \* ---- committed state shared by the requests ----
    store,            \* the committed value
    commits,          \* number of committing operations completed
    \* ---- hook (aspect) contexts ----
    aspectCreated,    \* number of WithAspectContext calls
    aspectDestroyed,  \* number of aspectCtx.Destroy calls
    \* ---- AspectNativeContract ----
    handlers,         \* the registry: method name -> handler
    dispPc,           \* position inside applyMsg
    dispCount,        \* number of calls of ApplyMessage so far
    dispReq,          \* the call: message, gas, commit
    handlerCalls,     \* invocations of Handler.Handle, in order
    dispResult,       \* what applyMsg returned
    \* ---- BackendImpl.BaseFee ----
    bfPc,             \* position inside BaseFee
    bfReq,            \* the fee-market query's answer and the block's events
    bfI,              \* the loop index i of the reverse scan
    bfResult,         \* what BaseFee returned
    \* ---- DebugAPI CPU profiling ----
    handler,          \* a.handler: mu, cpuFile, cpuFilename
    pprofCPU,         \* whether the runtime's CPU profiler is running
    profCallers,      \* per RPC caller: position, operation, file, result, calls made
    \* ---- TxPoolAPI ----
    poolReq,          \* the backend's answers: pending transactions, chain config, count
    poolOut,          \* what Content, Inspect and Status returned: <<>> or <<value>>
    \* ---- BackendImpl.ArtBlockByNumber ----
    blkReq,           \* the requested number and the node's answers per height
    blk               \* position, current number, resolved height, invocations, result

estVars == <<estPc, estReq, lo, hi, gasCap, executor, probes, estCtx, probeScopes, estResult>>
callVars == <<callPc, callReq, callOverlay, callObserved, callBase, callResult>>
storeVars == <<store, commits>>
aspectVars == <<aspectCreated, aspectDestroyed>>
traceVars == <<trPc, trReq, txs, txConfig, results, trResult, ctxState, cacheState,
               ttTxConfig, ttLogs, ttReturns, deadlines, watchers, tracerStop, reqCtx,
               tracerBuilt>>
dispVars == <<handlers, dispPc, dispCount, dispReq, handlerCalls, dispResult>>
bfVars == <<bfPc, bfReq, bfI, bfResult>>
profVars == <<handler, pprofCPU, profCallers>>
poolVars == <<poolReq, poolOut>>
blkVars == <<blkReq, blk>>
otherVars == <<profVars, poolVars, blkVars>>
vars == <<estVars, callVars, traceVars, storeVars, aspectVars, dispVars, bfVars, otherVars>>

\* What each handler leaves alone.
estFrame == <<callVars, traceVars, storeVars, dispVars, bfVars, otherVars>>
callFrame == <<estVars, traceVars, dispVars, bfVars, otherVars>>
traceFrame == <<estVars, callVars, storeVars, dispVars, bfVars, otherVars>>
dispFrame == <<estVars, callVars, traceVars, storeVars, aspectVars, bfVars, otherVars>>
bfFrame == <<estVars, callVars, traceVars, storeVars, aspectVars, dispVars, otherVars>>
coreVars == <<estVars, callVars, traceVars, storeVars, aspectVars, dispVars, bfVars>>
profFrame == <<coreVars, poolVars, blkVars>>
poolFrame == <<coreVars, profVars, blkVars>>
blkFrame == <<coreVars, profVars, poolVars>>

\* No hook context exists and the committed state is the genesis value.
Genesis == [by |-> "genesis", id |-> 0]

InitShared ==
    /\ store = Genesis
    /\ commits = 0
    /\ aspectCreated = 0
    /\ aspectDestroyed = 0

(***************************************************************************)
(* Keeper.EstimateGas                                                      *)
(***************************************************************************)
\* Faults a request can carry, in the order the handler meets them.
EstFaults == {"none", "nilreq", "chainid", "json", "evmcfg", "tomsg"}

GasCapValues == {0, TxGas - 1} \cup (TxGas .. MaxGasValue)
\* args.Gas: absent (<<>>) or present.
ArgsGasValues == {<<>>} \cup {<<g>> : g \in {TxGas - 1, TxGas, TxGas + 1, MaxGasValue, MaxGasValue + 1}}
\* ctx.ConsensusParams().Block: absent (<<>>) or carrying MaxGas.
BlockParamValues == {<<>>} \cup {<<g>> : g \in {-1, 0, TxGas - 2, TxGas + 2, MaxGasValue}}

EstRequests ==
    [fault : EstFaults, GasCap : GasCapValues, Gas : ArgsGasValues, Block : BlockParamValues]

\* req.GasCap < ethparams.TxGas is rejected.
GasCapAccepted_NoCheck(cap) == TRUE
GasCapAccepted(cap) == ~(cap < TxGas)

\* lo = ethparams.TxGas - 1
InitialLo_TxGas == TxGas
InitialLo == TxGas - 1

\* The highest gas limit that can be used during the estimation, before the recap.
ChosenHi(req) ==
    IF Len(req.Gas) > 0 /\ req.Gas[1] >= TxGas
    THEN req.Gas[1]
    ELSE IF Len(req.Block) > 0 /\ req.Block[1] > 0
         THEN req.Block[1]
         ELSE req.GasCap

\* Recap the highest gas allowance with the specified gas cap.
Recap_None(h, cap) == h
Recap(h, cap) == IF cap # 0 /\ h > cap THEN cap ELSE h

InitialHi(req) == Recap(ChosenHi(req), req.GasCap)

\* The helper `executable`: classifies one executor outcome as
\* (vmError/failed, rsp, err).  rsp is <<>> for nil.
Executable_IntrinsicBails(o) ==
    IF o.err # NoErr
    THEN [failed |-> TRUE, rsp |-> <<>>, err |-> o.err]
    ELSE [failed |-> Len(o.VmError) > 0, rsp |-> <<[VmError |-> o.VmError]>>, err |-> NoErr]
Executable_AllRetry(o) ==
    IF o.err # NoErr
    THEN [failed |-> TRUE, rsp |-> <<>>, err |-> NoErr]
    ELSE [failed |-> Len(o.VmError) > 0, rsp |-> <<[VmError |-> o.VmError]>>, err |-> NoErr]
Executable(o) ==
    IF o.err # NoErr
    THEN IF o.err = ErrIntrinsicGas
         THEN [failed |-> TRUE, rsp |-> <<>>, err |-> NoErr]
         ELSE [failed |-> TRUE, rsp |-> <<>>, err |-> o.err]
    ELSE [failed |-> Len(o.VmError) > 0, rsp |-> <<[VmError |-> o.VmError]>>, err |-> NoErr]

\* The context a probe executes in: tmpCtx, a cache context branched from the
\* request context whose write-back function is dropped.
ProbeContext_Shared == "ctx"
ProbeContext == "tmpCtx"

\* The commit flag `executable` passes to ApplyMessageWithConfig.
EstimateGasCommit == FALSE

\* The executor is deterministic: a gas limit already tried answers as before,
\* a new one answers with any outcome.
Answers(gas) ==
    IF gas \in DOMAIN executor THEN {executor[gas]} ELSE ExecOutcomes

Remember(gas, o) ==
    [g \in DOMAIN executor \cup {gas} |-> IF g = gas THEN o ELSE executor[g]]

\* types.BinSearch: midpoint of the current interval.
Mid(l, h) == (h + l) \div 2

\* Outcome of the re-execution at the highest allowance.
FinalOutcome_OutOfGasVerbatim(r, h, cap) ==
    IF r.err # NoErr
    THEN ErrorResult(PlainError(r.err))
    ELSE IF r.failed
         THEN IF Len(r.rsp) > 0
              THEN IF r.rsp[1].VmError = VmErrExecutionReverted
                   THEN ErrorResult(PlainError("execution reverted: reason"))
                   ELSE ErrorResult(PlainError(r.rsp[1].VmError))
              ELSE ErrorResult(PlainError("gas required exceeds allowance"))
         ELSE GasResult(h)
FinalOutcome(r, h, cap) ==
    IF r.err # NoErr
    THEN ErrorResult(PlainError(r.err))
    ELSE IF r.failed
         THEN IF Len(r.rsp) > 0 /\ r.rsp[1].VmError # VmErrOutOfGas
              THEN IF r.rsp[1].VmError = VmErrExecutionReverted
                   THEN ErrorResult(PlainError("execution reverted: reason"))
                   ELSE ErrorResult(PlainError(r.rsp[1].VmError))
              ELSE ErrorResult(PlainError("gas required exceeds allowance"))
         ELSE GasResult(h)

EstFresh ==
    /\ lo = 0
    /\ hi = 0
    /\ gasCap = 0
    /\ executor = << >>
    /\ probes = << >>
    /\ estCtx = << >>
    /\ probeScopes = << >>
    /\ estResult = NoResult

\* No EstimateGas request is in flight.
EstIdle ==
    /\ estPc = "idle"
    /\ estReq = [fault |-> "none", GasCap |-> 0, Gas |-> << >>, Block |-> << >>]
    /\ EstFresh

EstStart ==
    /\ estPc = "start"
    /\ estReq \in EstRequests
    /\ EstFresh

EstReturn(r) ==
    /\ estPc' = "done"
    /\ estResult' = r

\* Request validation, the bounds of the search, the EVM configuration and the
\* conversion of the arguments to a message.
EstimateGasBegin ==
    /\ estPc = "start"
    /\ IF estReq.fault = "nilreq"
       THEN EstReturn(ErrorResult(StatusError("InvalidArgument", "empty request")))
            /\ UNCHANGED <<lo, hi, gasCap>>
       ELSE IF estReq.fault = "chainid"
       THEN EstReturn(ErrorResult(StatusError("InvalidArgument", "chain id")))
            /\ UNCHANGED <<lo, hi, gasCap>>
       ELSE IF ~GasCapAccepted(estReq.GasCap)
       THEN EstReturn(ErrorResult(StatusError("InvalidArgument", "gas cap cannot be lower than 21,000")))
            /\ UNCHANGED <<lo, hi, gasCap>>
       ELSE IF estReq.fault = "json"
       THEN EstReturn(ErrorResult(StatusError("InvalidArgument", "json")))
            /\ UNCHANGED <<lo, hi, gasCap>>
       ELSE /\ lo' = InitialLo
            /\ hi' = InitialHi(estReq)
            /\ gasCap' = InitialHi(estReq)
            /\ IF estReq.fault = "evmcfg"
               THEN EstReturn(ErrorResult(StatusError("Internal", "failed to load evm config")))
               ELSE IF estReq.fault = "tomsg"
               THEN EstReturn(ErrorResult(StatusError("Internal", "to message")))
               ELSE estPc' = "search" /\ UNCHANGED estResult
    /\ UNCHANGED <<estReq, executor, probes, estCtx, probeScopes, aspectVars, estFrame>>

\* One call of `executable(gas)`: a cache context, an aspect context destroyed
\* by the deferred Destroy, and one run of the executor with commit = false.
\* What the run writes stays in the context it ran in.
Probe(gas, o) ==
    /\ o \in Answers(gas)
    /\ executor' = Remember(gas, o)
    /\ probes' = Append(probes, gas)
    /\ probeScopes' = Append(probeScopes, [base |-> estCtx, commit |-> EstimateGasCommit])
    /\ estCtx' = IF ProbeContext = "ctx" THEN Append(estCtx, gas) ELSE estCtx
    /\ aspectCreated' = aspectCreated + 1
    /\ aspectDestroyed' = aspectDestroyed + 1

\* One iteration of the loop of types.BinSearch.
BinSearchProbe ==
    /\ estPc = "search"
    /\ lo + 1 < hi
    /\ \E o \in ExecOutcomes :
         /\ Probe(Mid(lo, hi), o)
         /\ IF o.panic
            THEN EstReturn(PanicResult) /\ UNCHANGED <<lo, hi>>
            ELSE LET r == Executable(o) IN
                 IF r.err # NoErr
                 THEN EstReturn(ErrorResult(PlainError(r.err))) /\ UNCHANGED <<lo, hi>>
                 ELSE /\ IF r.failed
                         THEN lo' = Mid(lo, hi) /\ UNCHANGED hi
                         ELSE hi' = Mid(lo, hi) /\ UNCHANGED lo
                      /\ UNCHANGED <<estPc, estResult>>
    /\ UNCHANGED <<estReq, gasCap, estFrame>>

\* if hi == gasCap: the result of the search is re-executed.
NeedsFinalProbe_Never(h, cap) == FALSE
NeedsFinalProbe(h, cap) == h = cap

\* types.BinSearch returns hi; EstimateGas answers it unless hi = gasCap.
BinSearchReturn ==
    /\ estPc = "search"
    /\ ~(lo + 1 < hi)
    /\ IF NeedsFinalProbe(hi, gasCap)
       THEN estPc' = "final" /\ UNCHANGED estResult
       ELSE EstReturn(GasResult(hi))
    /\ UNCHANGED <<estReq, lo, hi, gasCap, executor, probes, estCtx, probeScopes, aspectVars, estFrame>>

\* The re-execution stands in an `if`, not in a loop: whatever it answers,
\* EstimateGas returns after it.
AfterFinalProbe_Again == "final"
AfterFinalProbe == "done"

\* Reject the transaction as invalid if it still fails at the highest allowance.
EstimateGasFinalProbe ==
    /\ estPc = "final"
    /\ \E o \in ExecOutcomes :
         /\ Probe(hi, o)
         /\ estPc' = AfterFinalProbe
         /\ estResult' = IF o.panic THEN PanicResult ELSE FinalOutcome(Executable(o), hi, gasCap)
    /\ UNCHANGED <<estReq, lo, hi, gasCap, estFrame>>

NextEstimateGas ==
    \/ EstimateGasBegin
    \/ BinSearchProbe
    \/ BinSearchReturn
    \/ EstimateGasFinalProbe

(***************************************************************************)
(* Keeper.EthCall, and the committed state the requests run against        *)
(***************************************************************************)
\* Committing operations that complete while the requests are in flight.
MaxCommits == 1

\* Two EthCall requests in flight at the same time.
Calls == {1, 2}

CallFaults == {"none", "nilreq", "json", "chainid", "evmcfg", "tomsg"}

\* The commit flag EthCall hands to ApplyMessageWithConfig.
EthCallCommit_True == TRUE
EthCallCommit == FALSE

ResponseResult(vmError) == [kind |-> "response", VmError |-> vmError]
\* A nil response together with a nil error.
NilNilResult == [kind |-> "nilnil"]

\* The value a state read of call c returns: its own uncommitted write if it
\* made one, the committed value otherwise.
View(c) == IF Len(callOverlay[c]) > 0 THEN callOverlay[c][1] ELSE store

\* What the deferred recover leaves the caller with: the panic is logged and
\* the unnamed results keep their zero values.
Recovered_AsError == ErrorResult(StatusError("Internal", "panic"))
Recovered == NilNilResult

CallIdle ==
    /\ callPc = [c \in Calls |-> "idle"]
    /\ callReq = [c \in Calls |-> "none"]
    /\ callOverlay = [c \in Calls |-> << >>]
    /\ callObserved = [c \in Calls |-> << >>]
    /\ callBase = [c \in Calls |-> 0]
    /\ callResult = [c \in Calls |-> NoResult]

CallStart ==
    /\ callPc = [c \in Calls |-> "start"]
    /\ callReq \in [Calls -> CallFaults]
    /\ callOverlay = [c \in Calls |-> << >>]
    /\ callObserved = [c \in Calls |-> << >>]
    /\ callBase = [c \in Calls |-> 0]
    /\ callResult = [c \in Calls |-> NoResult]

CallReturn(c, r) ==
    /\ callPc' = [callPc EXCEPT ![c] = "done"]
    /\ callResult' = [callResult EXCEPT ![c] = r]

\* Request validation, EVM configuration, message conversion and the creation
\* of the aspect context.
EthCallBegin(c) ==
    /\ callPc[c] = "start"
    /\ callBase' = [callBase EXCEPT ![c] = commits]
    /\ IF callReq[c] = "nilreq"
       THEN CallReturn(c, ErrorResult(StatusError("InvalidArgument", "empty request")))
            /\ UNCHANGED aspectVars
       ELSE IF callReq[c] = "json"
       THEN CallReturn(c, ErrorResult(StatusError("InvalidArgument", "json")))
            /\ UNCHANGED aspectVars
       ELSE IF callReq[c] = "chainid"
       THEN CallReturn(c, ErrorResult(StatusError("InvalidArgument", "chain id")))
            /\ UNCHANGED aspectVars
       ELSE IF callReq[c] = "evmcfg"
       THEN CallReturn(c, ErrorResult(StatusError("Internal", "evm config")))
            /\ UNCHANGED aspectVars
       ELSE IF callReq[c] = "tomsg"
       THEN CallReturn(c, ErrorResult(StatusError("InvalidArgument", "to message")))
            /\ UNCHANGED aspectVars
       ELSE /\ callPc' = [callPc EXCEPT ![c] = "exec"]
            /\ aspectCreated' = aspectCreated + 1
            /\ UNCHANGED <<callResult, aspectDestroyed>>
    /\ UNCHANGED <<callReq, callOverlay, callObserved, storeVars, callFrame>>

\* The executing message reads state through the call's StateDB.
EthCallRead(c) ==
    /\ callPc[c] = "exec"
    /\ callObserved' = [callObserved EXCEPT ![c] = <<View(c)>>]
    /\ UNCHANGED <<callPc, callReq, callOverlay, callBase, callResult, storeVars, aspectVars, callFrame>>

\* The executing message writes state: the write stays in the call's StateDB.
EthCallWrite(c) ==
    /\ callPc[c] = "exec"
    /\ callOverlay[c] = << >>
    /\ callOverlay' = [callOverlay EXCEPT ![c] = <<[by |-> "call", id |-> c]>>]
    /\ UNCHANGED <<callPc, callReq, callObserved, callBase, callResult, storeVars, aspectVars, callFrame>>

\* ApplyMessageWithConfig returns (or panics); the deferred Destroy and the
\* deferred recover run.  The StateDB reaches the store only when the commit
\* flag is set and the message executed.
EthCallReturn(c) ==
    /\ callPc[c] = "exec"
    /\ \E o \in ExecOutcomes :
         /\ IF o.panic
            THEN CallReturn(c, Recovered)
            ELSE IF o.err # NoErr
                 THEN CallReturn(c, ErrorResult(StatusError("Internal", o.err)))
                 ELSE CallReturn(c, ResponseResult(o.VmError))
         /\ IF EthCallCommit /\ ~o.panic /\ o.err = NoErr /\ Len(callOverlay[c]) > 0
            THEN store' = callOverlay[c][1]
            ELSE UNCHANGED store
    /\ aspectDestroyed' = aspectDestroyed + 1
    /\ UNCHANGED <<callReq, callOverlay, callObserved, callBase, commits, aspectCreated, callFrame>>

\* A committing operation completes: its effects reach the committed state.
CommitOperation ==
    /\ \E c \in Calls : callPc[c] # "idle"
    /\ commits < MaxCommits
    /\ commits' = commits + 1
    /\ store' = [by |-> "commit", id |-> commits + 1]
    /\ UNCHANGED <<callVars, aspectVars, callFrame>>

NextEthCall ==
    \/ \E c \in Calls : EthCallBegin(c)
    \/ \E c \in Calls : EthCallRead(c)
    \/ \E c \in Calls : EthCallWrite(c)
    \/ \E c \in Calls : EthCallReturn(c)
    \/ CommitOperation

(***************************************************************************)
(* Keeper.TraceTx, Keeper.TraceBlock and Keeper.traceTx                    *)
(***************************************************************************)
\* Predecessors of a TraceTx request, transactions of a TraceBlock request,
\* logs one transaction emits.
MaxPreds == 2
MaxTxs == 2
MaxLogs == 1

TraceFaults == {"none", "nilreq", "chainid", "evmcfg"}

\* tracers.DefaultDirectory: the tracer names it can construct.
KnownTracers == {"callTracer"}
\* time.ParseDuration: the strings it parses.
ParsableDurations == {"1ms"}

\* req.TraceConfig: nil (<<>>) or a configuration.
TraceConfig(l, t, d) == [Limit |-> l, Tracer |-> t, Timeout |-> d, TracerJsonConfig |-> ""]
WithTracerJsonConfig(cfg, j) == [cfg EXCEPT !.TracerJsonConfig = j]

\* A tracer configuration that is valid JSON.
OnlyTopCall == "{\"onlyTopCall\":true}"
ValidJson == {OnlyTopCall}

TraceConfigs ==
    {<< >>,
     <<WithTracerJsonConfig(TraceConfig(0, "callTracer", "1ms"), OnlyTopCall)>>,
     <<TraceConfig(0, "noSuchTracer", "1ms")>>, <<TraceConfig(0, "callTracer", "soon")>>,
     <<TraceConfig(-1, "", "")>>, <<TraceConfig(-1, "callTracer", "1ms")>>}

TraceRequests ==
    {r \in [kind : {"TraceTx", "TraceBlock"}, fault : TraceFaults,
            Config : TraceConfigs, N : 0 .. (MaxPreds + MaxTxs)] :
        r.N <= (IF r.kind = "TraceTx" THEN MaxPreds ELSE MaxTxs)}

\* A transaction: whether it converts to a message, what executing it does
\* (returns a response, returns an error, panics, or runs until its tracer is
\* stopped), how many logs its response carries, and whether its tracer can
\* produce a result.
Tx(conv, out, logs, result) == [conv |-> conv, out |-> out, logs |-> logs, result |-> result]

TxKinds ==
    {Tx(FALSE, "ok", 0, TRUE), Tx(TRUE, "err", 0, TRUE), Tx(TRUE, "panic", 0, TRUE),
     Tx(TRUE, "hang", 0, TRUE), Tx(TRUE, "ok", 0, FALSE)}
    \cup {Tx(TRUE, "ok", n, TRUE) : n \in 0 .. MaxLogs}

\* Predecessors run under the no-op tracer and without a deadline.
PredKinds == {t \in TxKinds : t.out # "hang" /\ t.result}

NilErr == [code |-> "", msg |-> ""]
ErrExecutionTimeout == "execution timeout"

\* (traceResult, nextLogIndex, error) of traceTx; the result is <<>> for nil.
TraceTxRet(result, logIndex, err) == [result |-> result, logIndex |-> logIndex, err |-> err]

\* req.TraceConfig != nil && req.TraceConfig.Limit < 0 is rejected.
LimitAccepted_NoCheck(cfg) == TRUE
LimitAccepted(cfg) == ~(Len(cfg) > 0 /\ cfg[1].Limit < 0)

\* traceConfig.Tracer and traceConfig.Timeout, with nil read as the empty configuration.
TracerName(cfg) == IF Len(cfg) > 0 THEN cfg[1].Tracer ELSE ""
TimeoutString(cfg) == IF Len(cfg) > 0 THEN cfg[1].Timeout ELSE ""

\* json.Unmarshal into a json.RawMessage: the text itself when it is valid
\* JSON, nil (<<>>) otherwise, the error being ignored.
Unmarshal(text) == IF text \in ValidJson THEN <<text>> ELSE << >>

\* The tracerJSONConfig argument each handler passes to traceTx.
TracerJSONConfig(kind, cfg) ==
    IF kind = "TraceTx"
    THEN IF Len(cfg) > 0 /\ cfg[1].TracerJsonConfig # ""
         THEN Unmarshal(cfg[1].TracerJsonConfig)
         ELSE << >>
    ELSE << >>

\* context.WithTimeout on the request's context: already done when the
\* parent is canceled.
WithTimeout(parent) == IF parent = "canceled" THEN "canceled" ELSE "running"

\* The commitMessage argument each handler passes to traceTx.
CommitMessage_Always(kind) == TRUE
CommitMessage(kind) == kind = "TraceBlock"

\* txConfig.LogIndex += uint(len(rsp.Logs))
AdvanceLogIndex_Overwrite(logIndex, n) == n
AdvanceLogIndex(logIndex, n) == logIndex + n

\* The watcher stops the tracer only when the deadline was exceeded.
WatcherStops_Always(d) == TRUE
WatcherStops_OnCancel(d) == d = "canceled"
WatcherStops(d) == d = "exceeded"

\* cancel() of the deadline context.
Cancelled_Never(d) == d
Cancelled(d) == IF d = "running" THEN "canceled" ELSE d

CancelCurrent(ds) ==
    IF Len(ds) > 0 THEN [ds EXCEPT ![Len(ds)] = Cancelled(ds[Len(ds)])] ELSE ds

TraceFresh ==
    /\ txs = << >>
    /\ txConfig = [TxIndex |-> 0, LogIndex |-> 0]
    /\ results = << >>
    /\ trResult = NoResult
    /\ ctxState = << >>
    /\ cacheState = << >>
    /\ ttTxConfig = [TxIndex |-> 0, LogIndex |-> 0]
    /\ ttLogs = 0
    /\ ttReturns = << >>
    /\ deadlines = << >>
    /\ watchers = << >>
    /\ tracerStop = << >>
    /\ reqCtx = "live"
    /\ tracerBuilt = << >>

TraceIdle ==
    /\ trPc = "idle"
    /\ trReq = [kind |-> "TraceTx", fault |-> "none", Config |-> << >>, N |-> 0]
    /\ TraceFresh

TraceStart ==
    /\ trPc = "start"
    /\ trReq \in TraceRequests
    /\ TraceFresh

TraceReturn(r) ==
    /\ trPc' = "done"
    /\ trResult' = r

\* TraceBlock records one transaction's outcome.
TraceBlockRecord_SkipFailed(rs, ret) ==
    IF ret.err # NilErr THEN rs ELSE Append(rs, [Result |-> ret.result, Error |-> ""])
TraceBlockRecord(rs, ret) ==
    IF ret.err # NilErr
    THEN Append(rs, [Result |-> << >>, Error |-> ret.err.msg])
    ELSE Append(rs, [Result |-> ret.result, Error |-> ""])

\* TraceBlock's log index after traceTx returned `ret` for a call made under cfg.
BlockLogIndex_Always(cfg, ret) == ret.logIndex
BlockLogIndex(cfg, ret) == IF ret.err # NilErr THEN cfg.LogIndex ELSE ret.logIndex

\* The handler's code after traceTx returned `ret`.
AfterTraceTx(ret) ==
    /\ ttReturns' = Append(ttReturns, ret)
    /\ IF trReq.kind = "TraceTx"
       THEN /\ IF ret.err # NilErr
               THEN TraceReturn(ErrorResult(ret.err))
               ELSE TraceReturn([kind |-> "response", data |-> ret.result])
            /\ UNCHANGED <<results, txConfig>>
       ELSE /\ results' = TraceBlockRecord(results, ret)
            /\ txConfig' = [TxIndex |-> Len(ttReturns),
                            LogIndex |-> BlockLogIndex(txConfig, ret)]
            /\ trPc' = "block"
            /\ UNCHANGED trResult

\* traceTx unwinds by a panic: the handlers do not recover it.
AfterTraceTxPanic ==
    /\ TraceReturn(PanicResult)
    /\ UNCHANGED <<results, txConfig, ttReturns>>

\* The tracer traceTx assembles: the struct logger when no tracer is named,
\* else tracers.DefaultDirectory.New(name, tCtx, tracerJSONConfig).
BuiltTracer(name, jsonConfig, txIndex) ==
    IF name = ""
    THEN [Tracer |-> "", Config |-> << >>, TxIndex |-> txIndex]
    ELSE [Tracer |-> name, Config |-> jsonConfig, TxIndex |-> txIndex]

\* The deferred functions of traceTx: cancel(), then commit() when
\* commitMessage is set, then aspectCtx.Destroy().
TraceTxDefers(cacheAfter) ==
    /\ deadlines' = CancelCurrent(deadlines)
    /\ ctxState' = IF CommitMessage(trReq.kind) THEN cacheAfter ELSE ctxState
    /\ aspectDestroyed' = aspectDestroyed + 1

\* Entry of traceTx for transaction tx under txCfg: cache context, aspect
\* context, message conversion, tracer construction, timeout parsing, deadline
\* context and watcher goroutine.
TraceTxEnter(tx, txCfg) ==
    /\ txs' = Append(txs, tx)
    /\ ttTxConfig' = txCfg
    /\ cacheState' = ctxState
    /\ aspectCreated' = aspectCreated + 1
    /\ ttLogs' = 0
    /\ LET early(err, built) ==
               /\ AfterTraceTx(TraceTxRet(<< >>, 0, err))
               /\ tracerBuilt' = built
               /\ deadlines' = Append(deadlines, "none")
               /\ watchers' = Append(watchers, "none")
               /\ tracerStop' = Append(tracerStop, FALSE)
               /\ ctxState' = IF CommitMessage(trReq.kind) THEN cacheState' ELSE ctxState
               /\ aspectDestroyed' = aspectDestroyed + 1
           tracer == BuiltTracer(TracerName(trReq.Config),
                                 TracerJSONConfig(trReq.kind, trReq.Config), txCfg.TxIndex)
       IN
       IF ~tx.conv
       THEN early(StatusError("Internal", "to message"), << >>)
       ELSE IF TracerName(trReq.Config) # "" /\ TracerName(trReq.Config) \notin KnownTracers
       THEN early(StatusError("Internal", "tracer not found"), << >>)
       ELSE IF TimeoutString(trReq.Config) # "" /\ TimeoutString(trReq.Config) \notin ParsableDurations
       THEN early(StatusError("InvalidArgument", "timeout value"), <<tracer>>)
       ELSE /\ tracerBuilt' = <<tracer>>
            /\ deadlines' = Append(deadlines, WithTimeout(reqCtx))
            /\ watchers' = Append(watchers, "waiting")
            /\ tracerStop' = Append(tracerStop, FALSE)
            /\ trPc' = "exec"
            /\ UNCHANGED <<trResult, results, txConfig, ttReturns, ctxState, aspectDestroyed>>

\* Validation and configuration of a TraceTx or TraceBlock request.
TraceBegin ==
    /\ trPc = "start"
    /\ IF trReq.fault = "nilreq"
       THEN TraceReturn(ErrorResult(StatusError("InvalidArgument", "empty request")))
       ELSE IF ~LimitAccepted(trReq.Config)
       THEN TraceReturn(ErrorResult(StatusError("InvalidArgument", "output limit cannot be negative")))
       ELSE IF trReq.fault = "chainid"
       THEN TraceReturn(ErrorResult(StatusError("InvalidArgument", "chain id")))
       ELSE IF trReq.fault = "evmcfg"
       THEN TraceReturn(ErrorResult(StatusError("Internal", "failed to load evm config")))
       ELSE /\ trPc' = IF trReq.kind = "TraceTx" THEN "preds" ELSE "block"
            /\ UNCHANGED trResult
    /\ UNCHANGED <<trReq, txs, txConfig, results, ctxState, cacheState, ttTxConfig, ttLogs,
                   ttReturns, deadlines, watchers, tracerStop, reqCtx, tracerBuilt, aspectVars,
                   traceFrame>>

\* One iteration of TraceTx's loop over req.Predecessors.
TraceTxPredecessor ==
    /\ trPc = "preds"
    /\ Len(txs) < trReq.N
    /\ \E tx \in PredKinds :
         /\ txs' = Append(txs, tx)
         /\ aspectCreated' = aspectCreated + 1
         /\ IF ~tx.conv
            THEN /\ aspectDestroyed' = aspectDestroyed + 1
                 /\ UNCHANGED <<trPc, trResult, txConfig, ctxState>>
            ELSE IF tx.out = "panic"
            THEN /\ TraceReturn(PanicResult)
                 /\ txConfig' = [txConfig EXCEPT !.TxIndex = Len(txs)]
                 /\ UNCHANGED <<aspectDestroyed, ctxState>>
            ELSE IF tx.out = "err"
            THEN /\ aspectDestroyed' = aspectDestroyed + 1
                 /\ txConfig' = [txConfig EXCEPT !.TxIndex = Len(txs)]
                 /\ UNCHANGED <<trPc, trResult, ctxState>>
            ELSE /\ aspectDestroyed' = aspectDestroyed + 1
                 /\ txConfig' = [TxIndex |-> Len(txs),
                                 LogIndex |-> AdvanceLogIndex(txConfig.LogIndex, tx.logs)]
                 /\ ctxState' = Append(ctxState, Len(txs) + 1)
                 /\ UNCHANGED <<trPc, trResult>>
    /\ UNCHANGED <<trReq, results, cacheState, ttTxConfig, ttLogs, ttReturns, deadlines,
                   watchers, tracerStop, reqCtx, tracerBuilt, traceFrame>>

\* TraceTx after the predecessors: the target transaction enters traceTx.
TraceTxTarget ==
    /\ trPc = "preds"
    /\ Len(txs) = trReq.N
    /\ \E tx \in TxKinds :
         TraceTxEnter(tx, IF trReq.N > 0
                          THEN [txConfig EXCEPT !.TxIndex = txConfig.TxIndex + 1]
                          ELSE txConfig)
    /\ UNCHANGED <<trReq, reqCtx, traceFrame>>

\* One iteration of TraceBlock's loop over req.Txs: transaction i enters traceTx.
TraceBlockNext ==
    /\ trPc = "block"
    /\ Len(txs) < trReq.N
    /\ \E tx \in TxKinds :
         TraceTxEnter(tx, [txConfig EXCEPT !.TxIndex = Len(txs)])
    /\ UNCHANGED <<trReq, reqCtx, traceFrame>>

\* TraceBlock after the loop: the results are returned.
TraceBlockFinish ==
    /\ trPc = "block"
    /\ Len(txs) = trReq.N
    /\ TraceReturn([kind |-> "response", data |-> results])
    /\ UNCHANGED <<trReq, txs, txConfig, results, ctxState, cacheState, ttTxConfig, ttLogs,
                   ttReturns, deadlines, watchers, tracerStop, reqCtx, tracerBuilt, aspectVars,
                   traceFrame>>

\* The timer of a deadline context fires.
DeadlineElapses(j) ==
    /\ deadlines[j] = "running"
    /\ deadlines' = [deadlines EXCEPT ![j] = "exceeded"]
    /\ UNCHANGED <<trPc, trReq, txs, txConfig, results, trResult, ctxState, cacheState,
                   ttTxConfig, ttLogs, ttReturns, watchers, tracerStop, reqCtx, tracerBuilt,
                   aspectVars, traceFrame>>

\* The watcher goroutine: wakes when its deadline context is done and stops
\* the tracer when the deadline was exceeded.
TraceWatcher(j) ==
    /\ watchers[j] = "waiting"
    /\ deadlines[j] # "running"
    /\ watchers' = [watchers EXCEPT ![j] = "done"]
    /\ tracerStop' = [tracerStop EXCEPT ![j] = tracerStop[j] \/ WatcherStops(deadlines[j])]
    /\ UNCHANGED <<trPc, trReq, txs, txConfig, results, trResult, ctxState, cacheState,
                   ttTxConfig, ttLogs, ttReturns, deadlines, reqCtx, tracerBuilt, aspectVars,
                   traceFrame>>

\* ApplyMessageWithConfig returns inside traceTx.  A long-running execution
\* returns only once its tracer is stopped.
TraceExecReturn ==
    /\ trPc = "exec"
    /\ LET tx == txs[Len(txs)] IN
       /\ tx.out = "hang" => tracerStop[Len(tracerStop)]
       /\ IF tx.out = "panic"
          THEN /\ AfterTraceTxPanic
               /\ TraceTxDefers(cacheState)
               /\ UNCHANGED <<cacheState, ttLogs>>
          ELSE IF tx.out = "err"
          THEN /\ AfterTraceTx(TraceTxRet(<< >>, 0, StatusError("Internal", ErrExecOther)))
               /\ TraceTxDefers(cacheState)
               /\ UNCHANGED <<cacheState, ttLogs>>
          ELSE /\ trPc' = "result"
               /\ ttLogs' = tx.logs
               /\ cacheState' = IF CommitMessage(trReq.kind)
                                THEN Append(cacheState, Len(txs))
                                ELSE cacheState
               /\ UNCHANGED <<trResult, results, txConfig, ttReturns, deadlines, ctxState,
                              aspectDestroyed>>
    /\ UNCHANGED <<trReq, txs, ttTxConfig, watchers, tracerStop, reqCtx, tracerBuilt,
                   aspectCreated, traceFrame>>

\* tracer.GetResult and the return of traceTx.  A stopped tracer answers
\* with the reason it was stopped for.
TraceGetResult ==
    /\ trPc = "result"
    /\ LET tx == txs[Len(txs)] IN
       IF tracerStop[Len(tracerStop)]
       THEN AfterTraceTx(TraceTxRet(<< >>, 0, StatusError("Internal", ErrExecutionTimeout)))
       ELSE IF ~tx.result
       THEN AfterTraceTx(TraceTxRet(<< >>, 0, StatusError("Internal", "tracer result")))
       ELSE AfterTraceTx(TraceTxRet(<<[TxIndex |-> ttTxConfig.TxIndex]>>,
                                    ttTxConfig.LogIndex + ttLogs, NilErr))
    /\ TraceTxDefers(cacheState)
    /\ UNCHANGED <<trReq, txs, cacheState, ttTxConfig, ttLogs, watchers, tracerStop, reqCtx,
                   tracerBuilt, aspectCreated, traceFrame>>

\* The request's context is canceled (the caller went away): the deadline
\* context derived from it is done with context.Canceled.
RequestCanceled ==
    /\ trPc \in {"preds", "block", "exec", "result"}
    /\ reqCtx = "live"
    /\ reqCtx' = "canceled"
    /\ deadlines' = CancelCurrent(deadlines)
    /\ UNCHANGED <<trPc, trReq, txs, txConfig, results, trResult, ctxState, cacheState,
                   ttTxConfig, ttLogs, ttReturns, watchers, tracerStop, tracerBuilt,
                   aspectVars, traceFrame>>

NextTrace ==
    \/ TraceBegin
    \/ TraceTxPredecessor
    \/ TraceTxTarget
    \/ TraceBlockNext
    \/ TraceBlockFinish
    \/ \E j \in 1 .. Len(deadlines) : DeadlineElapses(j)
    \/ \E j \in 1 .. Len(watchers) : TraceWatcher(j)
    \/ TraceExecReturn
    \/ TraceGetResult

(***************************************************************************)
(* AspectNativeContract: the registry of handlers and applyMsg             *)
(***************************************************************************)
\* Calls of ApplyMessage on one contract object.
MaxDispatches == 2

\* The handlers Init registers, in order.
HandlerTypes ==
    <<"DeployHandler", "UpgradeHandler", "BindHandler", "UnbindHandler",
      "ChangeVersionHandler", "GetVersionHandler", "GetBindingHandler",
      "GetBoundAddressHandler", "OperationHandler">>

\* Handler.Method(): the registry key of each handler.
Method(h) ==
    CASE h = "DeployHandler" -> "deploy"
      [] h = "UpgradeHandler" -> "upgrade"
      [] h = "BindHandler" -> "bind"
      [] h = "UnbindHandler" -> "unbind"
      [] h = "ChangeVersionHandler" -> "changeversion"
      [] h = "GetVersionHandler" -> "versionof"
      [] h = "GetBindingHandler" -> "aspectsof"
      [] h = "GetBoundAddressHandler" -> "boundaddressesof"
      [] h = "OperationHandler" -> "entrypoint"

\* c.handlers[handler.Method()] = handler
register(reg, h) ==
    [m \in DOMAIN reg \cup {Method(h)} |-> IF m = Method(h) THEN h ELSE reg[m]]

RECURSIVE registerAll(_, _, _)
registerAll(reg, hs, n) ==
    IF n = 0 THEN reg ELSE register(registerAll(reg, hs, n - 1), hs[n])

\* Method names a call's payload can decode to.
MethodNames == {"deploy", "Deploy", "BIND", "versionOf", "entrypoint", "mint", "Mint"}

\* strings.ToLower on the method names above.
ToLower_Identity(name) == name
ToLower(name) ==
    CASE name = "Deploy" -> "deploy"
      [] name = "BIND" -> "bind"
      [] name = "versionOf" -> "versionof"
      [] name = "Mint" -> "mint"
      [] OTHER -> name

ParameterLists == {<< >>, <<1>>, <<1, 2>>}

\* msg.Data: bytes that do not decode, or the encoding of a method and its
\* parameters.
Undecodable == [kind |-> "undecodable"]
Encoded(name, params) == [kind |-> "call", name |-> name, params |-> params]

DataValues == {Undecodable} \cup {Encoded(n, ps) : n \in MethodNames, ps \in ParameterLists}

\* aspect.ParseMethod: (method, parameters, err).
ErrParseMethod == "unable to parse method"
ParseMethod(data) ==
    IF data.kind = "undecodable"
    THEN [method |-> [Name |-> ""], parameters |-> << >>, err |-> ErrParseMethod]
    ELSE [method |-> [Name |-> data.name], parameters |-> data.params, err |-> NoErr]

Addresses == {"0xA", "0xB"}
DispatchGasValues == {0, 30000}

DispatchRequests ==
    [msg : [From : Addresses, Data : DataValues], gas : DispatchGasValues, commit : BOOLEAN]

\* (ret, remainingGas, err); ret is <<>> for nil.
DispatchRet(ret, remainingGas, err) == [ret |-> ret, remainingGas |-> remainingGas, err |-> err]

\* errorsmod.Wrapf(evmtypes.ErrCallContract, "method %s not found", method.Name)
ErrCallContract == "call contract failed"
MethodNotFound_Silent(name) == DispatchRet(<< >>, 0, [class |-> "", text |-> << >>])
MethodNotFound(name) ==
    DispatchRet(<< >>, 0, [class |-> ErrCallContract, text |-> <<"method", name, "not found">>])

\* c.handlers[key]: reading the map leaves it as it is.
AfterLookup_Insert(reg, key) ==
    [m \in DOMAIN reg \cup {key} |-> IF m \in DOMAIN reg THEN reg[m] ELSE "OperationHandler"]
AfterLookup(reg, key) == reg

\* The fields of HandlerContext a handler reads its call from.
HandlerContext_NoCommit(req, parsed) ==
    [from |-> req.msg.From, parameters |-> parsed.parameters, commit |-> FALSE,
     method |-> parsed.method, rawInput |-> req.msg.Data]
HandlerContext(req, parsed) ==
    [from |-> req.msg.From, parameters |-> parsed.parameters, commit |-> req.commit,
     method |-> parsed.method, rawInput |-> req.msg.Data]

\* What Handler.Handle can return for a call made with `gas`.
HandlerOutcomes(gas) ==
    {DispatchRet(<< >>, 0, [class |-> "handler", text |-> <<"failed">>]),
     DispatchRet(<< >>, gas, [class |-> "", text |-> << >>]),
     DispatchRet(<<1>>, gas, [class |-> "", text |-> << >>]),
     DispatchRet(<<1>>, 0, [class |-> "", text |-> << >>])}

NotReturned == [ret |-> << >>, remainingGas |-> -1, err |-> [class |-> "pending", text |-> << >>]]

DispatchFresh ==
    /\ handlers = << >>
    /\ dispCount = 0
    /\ handlerCalls = << >>
    /\ dispResult = NotReturned

DispatchIdle ==
    /\ dispPc = "idle"
    /\ dispReq = [msg |-> [From |-> "0xA", Data |-> Undecodable], gas |-> 0, commit |-> FALSE]
    /\ DispatchFresh

\* After NewAspectNativeContract: the registry is empty.
DispatchStart ==
    /\ dispPc = "start"
    /\ dispReq \in DispatchRequests
    /\ DispatchFresh

DispatchReturn(r) ==
    /\ dispPc' = "done"
    /\ dispResult' = r

\* AspectNativeContract.Init
ContractInit ==
    /\ dispPc = "start"
    /\ handlers = << >>
    /\ handlers' = registerAll(handlers, HandlerTypes, Len(HandlerTypes))
    /\ UNCHANGED <<dispPc, dispCount, dispReq, handlerCalls, dispResult, dispFrame>>

\* applyMsg up to the call of handler.Handle.
ApplyMsg ==
    /\ dispPc = "start"
    /\ dispCount' = dispCount + 1
    /\ LET parsed == ParseMethod(dispReq.msg.Data)
           key == ToLower(parsed.method.Name)
       IN
       IF parsed.err # NoErr
       THEN /\ DispatchReturn(DispatchRet(<< >>, 0, [class |-> "", text |-> <<parsed.err>>]))
            /\ UNCHANGED <<handlers, handlerCalls>>
       ELSE /\ handlers' = AfterLookup(handlers, key)
            /\ IF key \notin DOMAIN handlers
               THEN /\ DispatchReturn(MethodNotFound(parsed.method.Name))
                    /\ UNCHANGED handlerCalls
               ELSE /\ handlerCalls' = Append(handlerCalls,
                                          [handler |-> handlers[key],
                                           ctx |-> HandlerContext(dispReq, parsed),
                                           gas |-> dispReq.gas,
                                           out |-> NotReturned])
                    /\ dispPc' = "handle"
                    /\ UNCHANGED dispResult
    /\ UNCHANGED <<dispReq, dispFrame>>

\* handler.Handle returns and applyMsg returns what it returned.
HandlerReturn ==
    /\ dispPc = "handle"
    /\ \E out \in HandlerOutcomes(handlerCalls[Len(handlerCalls)].gas) :
         /\ handlerCalls' = [handlerCalls EXCEPT ![Len(handlerCalls)].out = out]
         /\ DispatchReturn(out)
    /\ UNCHANGED <<handlers, dispCount, dispReq, dispFrame>>

\* The next call of ApplyMessage on the same contract object.
NextApplyMessage ==
    /\ dispPc = "done"
    /\ dispCount < MaxDispatches
    /\ dispPc' = "start"
    /\ dispReq' \in DispatchRequests
    /\ handlerCalls' = << >>
    /\ dispResult' = NotReturned
    /\ UNCHANGED <<handlers, dispCount, dispFrame>>

NextDispatch ==
    \/ ContractInit
    \/ ApplyMsg
    \/ HandlerReturn
    \/ NextApplyMessage

(***************************************************************************)
(* BackendImpl.BaseFee                                                     *)
(***************************************************************************)
\* Events of one block.
MaxEvents == 3

\* feetypes.EventTypeFee
EventTypeFee == "fee_market"

\* Attribute values, as the sequence of their characters.
DigitValue ==
    ("0" :> 0) @@ ("1" :> 1) @@ ("2" :> 2) @@ ("3" :> 3) @@ ("4" :> 4) @@
    ("5" :> 5) @@ ("6" :> 6) @@ ("7" :> 7) @@ ("8" :> 8) @@ ("9" :> 9)

AttributeValues == {<<"7">>, <<"1", "2">>, <<"-", "3">>, <<"1", "x">>, << >>}

Attribute(v) == [Key |-> "base_fee", Value |-> v]

BlockEvents ==
    {[Type |-> EventTypeFee, Attributes |-> << >>]}
    \cup {[Type |-> EventTypeFee, Attributes |-> <<Attribute(v)>>] : v \in AttributeValues}
    \cup {[Type |-> "tx", Attributes |-> << >>], [Type |-> "tx", Attributes |-> <<Attribute(<<"9">>)>>]}

RECURSIVE EventLists(_)
EventLists(n) ==
    IF n = 0
    THEN {<< >>}
    ELSE EventLists(n - 1) \cup {Append(es, e) : es \in {l \in EventLists(n - 1) : Len(l) = n - 1}, e \in BlockEvents}

\* The answer of queryClient.BaseFee: an error, or a response whose BaseFee
\* is nil (<<>>) or a value.
ErrQuery == "state pruned"
QueryAnswers ==
    {[err |-> ErrQuery, BaseFee |-> << >>],
     [err |-> NoErr, BaseFee |-> << >>],
     [err |-> NoErr, BaseFee |-> <<5>>]}

BaseFeeRequests == [query : QueryAnswers, events : EventLists(MaxEvents)]

\* strconv.ParseInt(s, 10, 64): an optional sign followed by one or more
\* decimal digits.  The values above are too short to leave the 64-bit range.
RECURSIVE DecimalValue(_, _)
DecimalValue(s, n) ==
    IF n = 0 THEN 0 ELSE DecimalValue(s, n - 1) * 10 + DigitValue[s[n]]

ParseInt(s) ==
    IF s = << >>
    THEN [ok |-> FALSE, value |-> 0]
    ELSE LET signed == s[1] \in {"+", "-"}
             body == IF signed THEN Tail(s) ELSE s
         IN
         IF body = << >> \/ \E i \in 1 .. Len(body) : body[i] \notin DOMAIN DigitValue
         THEN [ok |-> FALSE, value |-> 0]
         ELSE [ok |-> TRUE,
               value |-> IF s[1] = "-"
                         THEN 0 - DecimalValue(body, Len(body))
                         ELSE DecimalValue(body, Len(body))]

\* evt.Type == feetypes.EventTypeFee && len(evt.Attributes) > 0
IsFeeEvent(evt) == evt.Type = EventTypeFee /\ Len(evt.Attributes) > 0

\* Whether an unparsable fee event ends the scan.
ParseFailureBreaks_Continue == FALSE
ParseFailureBreaks == TRUE

\* (base fee, error); the base fee is <<>> for nil.
BaseFeeRet(fee, err) == [baseFee |-> fee, err |-> err]

BaseFeeFresh ==
    /\ bfI = 0
    /\ bfResult = NoResult

BaseFeeIdle ==
    /\ bfPc = "idle"
    /\ bfReq = [query |-> [err |-> NoErr, BaseFee |-> << >>], events |-> << >>]
    /\ BaseFeeFresh

BaseFeeStart ==
    /\ bfPc = "start"
    /\ bfReq \in BaseFeeRequests
    /\ BaseFeeFresh

BaseFeeReturn(r) ==
    /\ bfPc' = "done"
    /\ bfResult' = r

\* err != nil || res.BaseFee == nil: the answer of the query is not used.
UseFallback_OnErrorOnly(q) == q.err # NoErr
UseFallback(q) == q.err # NoErr \/ q.BaseFee = << >>

\* The fee-market query and the choice between its answer and the events.
BaseFeeQuery ==
    /\ bfPc = "start"
    /\ IF UseFallback(bfReq.query)
       THEN /\ bfPc' = "scan"
            /\ bfI' = Len(bfReq.events)
            /\ UNCHANGED bfResult
       ELSE /\ BaseFeeReturn(BaseFeeRet(bfReq.query.BaseFee, NoErr))
            /\ UNCHANGED bfI
    /\ UNCHANGED <<bfReq, bfFrame>>

\* One iteration of the reverse loop over blockRes.FinalizeBlockEvents.
BaseFeeScanEvent ==
    /\ bfPc = "scan"
    /\ bfI >= 1
    /\ LET evt == bfReq.events[bfI] IN
       IF IsFeeEvent(evt)
       THEN LET parsed == ParseInt(evt.Attributes[1].Value) IN
            IF parsed.ok
            THEN BaseFeeReturn(BaseFeeRet(<<parsed.value>>, NoErr)) /\ UNCHANGED bfI
            ELSE IF ParseFailureBreaks
                 THEN BaseFeeReturn(BaseFeeRet(<< >>, bfReq.query.err)) /\ UNCHANGED bfI
                 ELSE bfI' = bfI - 1 /\ UNCHANGED <<bfPc, bfResult>>
       ELSE bfI' = bfI - 1 /\ UNCHANGED <<bfPc, bfResult>>
    /\ UNCHANGED <<bfReq, bfFrame>>

\* The loop ran out of events: return nil, err with the query's error.
BaseFeeScanEnd ==
    /\ bfPc = "scan"
    /\ bfI = 0
    /\ BaseFeeReturn(BaseFeeRet(<< >>, bfReq.query.err))
    /\ UNCHANGED <<bfReq, bfI, bfFrame>>

NextBaseFee ==
    \/ BaseFeeQuery
    \/ BaseFeeScanEvent
    \/ BaseFeeScanEnd

(***************************************************************************)
(* DebugAPI.StartCPUProfile and DebugAPI.StopCPUProfile                    *)
(***************************************************************************)
\* Concurrent RPC callers, and the calls each of them makes.
Callers == {1, 2}
MaxProfileCalls == 2

\* File names a caller passes; ExpandHome looks up the user for "~/" names.
ProfileFiles == {"cpu.prof", "~/cpu.prof"}

NoFile == << >>
Pending == "pending"
ErrConfigProfile == "CPU profiling already in progress using the configuration file"
ErrAlreadyInProgress == "CPU profiling already in progress"
ErrNotInProgress == "CPU profiling not in progress"
ErrExpandHome == "user: Current failed"
ErrCreate == "create failed"
ErrInUse == "cpu profiling already in use"
ErrCloseProfile == "failed to close cpu profile file"
ErrCloseFile == "failed to close cpu file"

\* isCPUProfileConfigurationActivated: the cpu-profile flag is not set.
IsCPUProfileConfigurationActivated == FALSE

\* sync.Mutex: Lock returns when no one holds the mutex.
MutexFree_Always(m) == TRUE
MutexFree(m) == m = 0

\* What ExpandHome and os.Create can answer for a file name.
CreateOutcomes(file) ==
    {"ok", ErrCreate} \cup (IF file = "~/cpu.prof" THEN {ErrExpandHome} ELSE {})

ProfIdleCaller == [pc |-> "idle", op |-> "none", file |-> "", ret |-> Pending, calls |-> 0]

ProfFresh ==
    /\ handler = [mu |-> 0, cpuFile |-> NoFile, cpuFilename |-> ""]
    /\ pprofCPU = FALSE
    /\ profCallers = [c \in Callers |-> ProfIdleCaller]

ProfIdle == ProfFresh
ProfStart == ProfFresh

ProfStep(c, pc, ret) ==
    profCallers' = [profCallers EXCEPT ![c].pc = pc, ![c].ret = ret]

\* A caller issues debug_startCPUProfile(file) or debug_stopCPUProfile().
ProfCall(c) ==
    /\ profCallers[c].pc = "idle"
    /\ profCallers[c].calls < MaxProfileCalls
    /\ \E op \in {"start", "stop"}, file \in ProfileFiles :
         /\ op = "stop" => file = "cpu.prof"
         /\ profCallers' = [profCallers EXCEPT ![c] =
                [pc |-> "lock", op |-> op, file |-> IF op = "start" THEN file ELSE "",
                 ret |-> Pending, calls |-> @.calls + 1]]
    /\ UNCHANGED <<handler, pprofCPU, profFrame>>

\* a.handler.mu.Lock()
ProfLock(c) ==
    /\ profCallers[c].pc = "lock"
    /\ MutexFree(handler.mu)
    /\ handler' = [handler EXCEPT !.mu = c]
    /\ ProfStep(c, "switch", Pending)
    /\ UNCHANGED <<pprofCPU, profFrame>>

\* The switch of both functions: the configuration flag, then cpuFile != nil.
ProfSwitch(c) ==
    /\ profCallers[c].pc = "switch"
    /\ IF IsCPUProfileConfigurationActivated
       THEN ProfStep(c, "unlock", ErrConfigProfile)
       ELSE IF profCallers[c].op = "start"
       THEN IF handler.cpuFile # NoFile
            THEN ProfStep(c, "unlock", ErrAlreadyInProgress)
            ELSE ProfStep(c, "create", Pending)
       ELSE IF handler.cpuFile # NoFile
            THEN ProfStep(c, "stop", Pending)
            ELSE ProfStep(c, "unlock", ErrNotInProgress)
    /\ UNCHANGED <<handler, pprofCPU, profFrame>>

\* StartCPUProfile, default case: ExpandHome, os.Create, pprof.StartCPUProfile
\* (which fails when the profiler is running already) and the assignments.
StartCPUProfileDefault(c) ==
    /\ profCallers[c].pc = "create"
    /\ \E io \in CreateOutcomes(profCallers[c].file), closed \in BOOLEAN :
         IF io # "ok"
         THEN /\ closed
              /\ ProfStep(c, "unlock", io)
              /\ UNCHANGED <<handler, pprofCPU>>
         ELSE IF pprofCPU
         THEN /\ ProfStep(c, "unlock", IF closed THEN ErrInUse ELSE ErrCloseProfile)
              /\ UNCHANGED <<handler, pprofCPU>>
         ELSE /\ closed
              /\ pprofCPU' = TRUE
              /\ handler' = [handler EXCEPT !.cpuFile = <<profCallers[c].file>>,
                                            !.cpuFilename = profCallers[c].file]
              /\ ProfStep(c, "unlock", "nil")
    /\ UNCHANGED profFrame

\* StopCPUProfile, case cpuFile != nil: pprof.StopCPUProfile, Close, and the
\* handler is cleared only when Close succeeded.
StopCPUProfileActive(c) ==
    /\ profCallers[c].pc = "stop"
    /\ pprofCPU' = FALSE
    /\ \E closed \in BOOLEAN :
         IF closed
         THEN /\ handler' = [handler EXCEPT !.cpuFile = NoFile, !.cpuFilename = ""]
              /\ ProfStep(c, "unlock", "nil")
         ELSE /\ ProfStep(c, "unlock", ErrCloseFile)
              /\ UNCHANGED handler
    /\ UNCHANGED profFrame

\* defer a.handler.mu.Unlock(), and the call returns.
ProfUnlock(c) ==
    /\ profCallers[c].pc = "unlock"
    /\ handler' = [handler EXCEPT !.mu = 0]
    /\ profCallers' = [profCallers EXCEPT ![c].pc = "idle"]
    /\ UNCHANGED <<pprofCPU, profFrame>>

NextProfile ==
    \E c \in Callers :
        \/ ProfCall(c)
        \/ ProfLock(c)
        \/ ProfSwitch(c)
        \/ StartCPUProfileDefault(c)
        \/ StopCPUProfileActive(c)
        \/ ProfUnlock(c)

(***************************************************************************)
(* TxPoolAPI: Content, Status, Inspect and getPendingContent               *)
(***************************************************************************)
\* Pending transactions the backend reports.
MaxPending == 2

\* common.Address{}
ZeroAddress == "0x0"
Senders == {"0xA", "0xB"}
ErrSender == "sender failed"

\* A message of a pending transaction: not a MsgEthereumTx, or one with the
\* answer of GetSender, the outcome of UnpackTxData, its nonce and its To.
OtherMsg == [eth |-> FALSE]
EthMsg(sender, unpacked, nonce, to) ==
    [eth |-> TRUE, sender |-> sender, unpacked |-> unpacked, nonce |-> nonce, to |-> to]

PoolMsgs ==
    {OtherMsg, EthMsg(ErrSender, TRUE, 0, << >>), EthMsg("0xA", FALSE, 1, << >>)}
    \cup {EthMsg(a, TRUE, n, IF n = 0 THEN << >> ELSE <<"0xC">>) : a \in Senders, n \in {0, 1}}

\* tx.GetMsgs()
PoolTxs ==
    {<<m>> : m \in PoolMsgs}
    \cup {<<OtherMsg, EthMsg("0xA", TRUE, 0, << >>)>>,
          <<EthMsg("0xB", TRUE, 1, <<"0xC">>), EthMsg("0xB", TRUE, 0, << >>)>>}

RECURSIVE PendingLists(_)
PendingLists(n) ==
    IF n = 0
    THEN {<< >>}
    ELSE PendingLists(n - 1) \cup {Append(l, t) : l \in {k \in PendingLists(n - 1) : Len(k) = n - 1}, t \in PoolTxs}

PoolRequests ==
    [pendingErr : BOOLEAN, cfgNil : BOOLEAN, countErr : BOOLEAN, pendingTxs : PendingLists(MaxPending)]

\* strconv.FormatUint(n, 10) and fmt.Sprintf("%d", n) of a nonce.
DecimalString(n) == CASE n = 0 -> "0" [] n = 1 -> "1" [] OTHER -> "?"

\* make(map...): the empty map; m[k] = v.
EmptyMap == << >>
Put(m, k, v) == [x \in DOMAIN m \cup {k} |-> IF x = k THEN v ELSE m[x]]

\* rpctypes.NewTransactionFromMsg: the fields Inspect reads.
RPCTransaction(msg) == [From |-> msg.sender, Nonce |-> msg.nonce, To |-> msg.to]

\* The body of the inner loop of getPendingContent for one message.
AddPending(content, msg, addr) ==
    IF ~msg.eth THEN content
    ELSE IF msg.sender = ErrSender THEN content
    ELSE IF addr # ZeroAddress /\ addr # msg.sender THEN content
    ELSE IF ~msg.unpacked THEN content
    ELSE LET old == IF msg.sender \in DOMAIN content THEN content[msg.sender] ELSE EmptyMap
         IN Put(content, msg.sender, Put(old, DecimalString(msg.nonce), RPCTransaction(msg)))

RECURSIVE AddMsgs(_, _, _, _)
AddMsgs(content, msgs, n, addr) ==
    IF n = 0 THEN content ELSE AddPending(AddMsgs(content, msgs, n - 1, addr), msgs[n], addr)

RECURSIVE AddTxs(_, _, _, _)
AddTxs(content, pending, n, addr) ==
    IF n = 0
    THEN content
    ELSE AddMsgs(AddTxs(content, pending, n - 1, addr), pending[n], Len(pending[n]), addr)

getPendingContent(req, addr) ==
    IF req.pendingErr THEN EmptyMap
    ELSE IF req.cfgNil THEN EmptyMap
    ELSE AddTxs(EmptyMap, req.pendingTxs, Len(req.pendingTxs), addr)

\* The keys Content files the pending transactions under.
ContentResult(req) ==
    [pending |-> EmptyMap, queued |-> getPendingContent(req, ZeroAddress)]

\* Inspect's formatter.
Format(tx) == IF tx.To # << >> THEN <<tx.To[1], "wei + gas x wei">> ELSE <<"contract creation", "wei + gas x wei">>

Rekeyed(txsByNonce) ==
    {DecimalString(txsByNonce[k].Nonce) : k \in DOMAIN txsByNonce}

InspectResult(req) ==
    LET pending == getPendingContent(req, ZeroAddress) IN
    [pending |-> [account \in DOMAIN pending |->
                     [k \in Rekeyed(pending[account]) |->
                         Format(CHOOSE tx \in {pending[account][j] : j \in DOMAIN pending[account]} :
                                    DecimalString(tx.Nonce) = k)]],
     queued |-> EmptyMap]

\* PendingTransactionsCount fails: the count stays 0.
StatusResult(req) ==
    [pending |-> IF req.countErr \/ req.pendingErr THEN 0 ELSE Len(req.pendingTxs), queued |-> 0]

PoolFresh == poolOut = [content |-> << >>, inspect |-> << >>, status |-> << >>]

PoolIdle ==
    /\ poolReq = [pendingErr |-> TRUE, cfgNil |-> TRUE, countErr |-> TRUE, pendingTxs |-> << >>]
    /\ PoolFresh

PoolStart ==
    /\ poolReq \in PoolRequests
    /\ PoolFresh

\* txpool_content
Content ==
    /\ poolOut.content = << >>
    /\ poolOut' = [poolOut EXCEPT !.content = <<ContentResult(poolReq)>>]
    /\ UNCHANGED <<poolReq, poolFrame>>

\* txpool_inspect
Inspect ==
    /\ poolOut.inspect = << >>
    /\ poolOut' = [poolOut EXCEPT !.inspect = <<InspectResult(poolReq)>>]
    /\ UNCHANGED <<poolReq, poolFrame>>

\* txpool_status
Status ==
    /\ poolOut.status = << >>
    /\ poolOut' = [poolOut EXCEPT !.status = <<StatusResult(poolReq)>>]
    /\ UNCHANGED <<poolReq, poolFrame>>

NextTxPool ==
    \/ Content
    \/ Inspect
    \/ Status

(***************************************************************************)
(* BackendImpl.ArtBlockByNumber                                            *)
(***************************************************************************)
\* Heights of the chain.
MaxHeight == 3

\* rpc.BlockNumber sentinels.
LatestBlockNumber == -2
PendingBlockNumber == -1
EarliestBlockNumber == 0

BlockNumbers == {LatestBlockNumber, PendingBlockNumber, EarliestBlockNumber} \cup (1 .. (MaxHeight + 1))

\* Per height: what the block query answers, and whether block results exist.
BlockAnswers == {"ok", "err", "nil"}

BlockRequests ==
    {[number |-> n, latest |-> l, blocks |-> b, results |-> r] :
        n \in BlockNumbers, l \in 1 .. MaxHeight,
        b \in UNION {[1 .. k -> BlockAnswers] : k \in 1 .. MaxHeight},
        r \in UNION {[1 .. k -> BOOLEAN] : k \in 1 .. MaxHeight}}

WellFormed(req) == DOMAIN req.blocks = 1 .. req.latest /\ DOMAIN req.results = 1 .. req.latest

\* CosmosBlockByNumber: a sentinel resolves to the latest height; the answer
\* is (resBlock, err), resBlock being <<>> for nil.
CosmosBlockByNumber(req, number) ==
    LET height == IF number <= 0 THEN req.latest ELSE number IN
    IF height > req.latest \/ req.blocks[height] = "err"
    THEN [resBlock |-> << >>, err |-> "block query failed"]
    ELSE IF req.blocks[height] = "nil"
    THEN [resBlock |-> << >>, err |-> NoErr]
    ELSE [resBlock |-> <<[Height |-> height]>>, err |-> NoErr]

\* CosmosBlockResultByNumber(&height)
CosmosBlockResultByNumber(req, height) ==
    IF req.results[height]
    THEN [blockRes |-> <<[Height |-> height]>>, err |-> NoErr]
    ELSE [blockRes |-> << >>, err |-> "block result missing"]

\* number == rpc.LatestBlockNumber && resBlock.Block.Height > 1
MayRetry_AnyNumber(number, height) == height > 1
MayRetry(number, height) == number = LatestBlockNumber /\ height > 1

\* rpc.BlockNumber(resBlock.Block.Height - 1)
RetryNumber(height) == height - 1

ErrQueryBlock(number) == [kind |-> "error", msg |-> <<"query block failed, block number", number>>]
ErrBlockResult(height) == [kind |-> "error", msg |-> <<"block result not found for height", height>>]
BlockFromCosmosBlock(height) == [kind |-> "block", height |-> height]

BlockFresh(number) ==
    blk = [pc |-> "block", number |-> number, height |-> 0, invocations |-> <<number>>, result |-> NoResult]

BlockIdle ==
    /\ blkReq = [number |-> 1, latest |-> 1, blocks |-> <<"nil">>, results |-> <<FALSE>>]
    /\ blk = [pc |-> "idle", number |-> 1, height |-> 0, invocations |-> << >>, result |-> NoResult]

BlockStart ==
    /\ blkReq \in BlockRequests
    /\ WellFormed(blkReq)
    /\ BlockFresh(blkReq.number)

\* resBlock, err := b.CosmosBlockByNumber(number)
BlockLookup ==
    /\ blk.pc = "block"
    /\ LET r == CosmosBlockByNumber(blkReq, blk.number) IN
       IF r.err # NoErr \/ r.resBlock = << >>
       THEN blk' = [blk EXCEPT !.pc = "done", !.result = ErrQueryBlock(blk.number)]
       ELSE blk' = [blk EXCEPT !.pc = "result", !.height = r.resBlock[1].Height]
    /\ UNCHANGED <<blkReq, blkFrame>>

\* blockRes, err := b.CosmosBlockResultByNumber(&resBlock.Block.Height), the
\* workaround for a missing block result, and BlockFromCosmosBlock.
BlockResultLookup ==
    /\ blk.pc = "result"
    /\ LET r == CosmosBlockResultByNumber(blkReq, blk.height) IN
       IF r.err # NoErr
       THEN IF MayRetry(blk.number, blk.height)
            THEN blk' = [blk EXCEPT !.pc = "block",
                                    !.number = RetryNumber(blk.height),
                                    !.invocations = Append(@, RetryNumber(blk.height))]
            ELSE blk' = [blk EXCEPT !.pc = "done", !.result = ErrBlockResult(blk.height)]
       ELSE blk' = [blk EXCEPT !.pc = "done", !.result = BlockFromCosmosBlock(blk.height)]
    /\ UNCHANGED <<blkReq, blkFrame>>

NextBlock ==
    \/ BlockLookup
    \/ BlockResultLookup

\* The utility endpoints are not in use.
OtherIdle == ProfIdle /\ PoolIdle /\ BlockIdle

(***************************************************************************)
(* Specifications                                                          *)
(***************************************************************************)
InitEstimateGas == EstStart /\ CallIdle /\ TraceIdle /\ DispatchIdle /\ BaseFeeIdle /\ OtherIdle /\ InitShared
SpecEstimateGas == InitEstimateGas /\ [][NextEstimateGas]_vars

InitEthCall == CallStart /\ EstIdle /\ TraceIdle /\ DispatchIdle /\ BaseFeeIdle /\ OtherIdle /\ InitShared
SpecEthCall == InitEthCall /\ [][NextEthCall]_vars

InitTrace == TraceStart /\ EstIdle /\ CallIdle /\ DispatchIdle /\ BaseFeeIdle /\ OtherIdle /\ InitShared
SpecTrace == InitTrace /\ [][NextTrace]_vars

\* Every executor invocation returns and the handler keeps running.
FairSpecEstimateGas == SpecEstimateGas /\ WF_estVars(NextEstimateGas)

\* A trace request whose caller may go away while it is served.
NextTraceCanceled == NextTrace \/ RequestCanceled
SpecTraceCanceled == InitTrace /\ [][NextTraceCanceled]_vars

InitDispatch == DispatchStart /\ EstIdle /\ CallIdle /\ TraceIdle /\ BaseFeeIdle /\ OtherIdle /\ InitShared
SpecDispatch == InitDispatch /\ [][NextDispatch]_vars

InitBaseFee == BaseFeeStart /\ EstIdle /\ CallIdle /\ TraceIdle /\ DispatchIdle /\ OtherIdle /\ InitShared
SpecBaseFee == InitBaseFee /\ [][NextBaseFee]_vars

InitProfile ==
    /\ ProfStart /\ PoolIdle /\ BlockIdle
    /\ EstIdle /\ CallIdle /\ TraceIdle /\ DispatchIdle /\ BaseFeeIdle /\ InitShared
SpecProfile == InitProfile /\ [][NextProfile]_vars

InitTxPool ==
    /\ PoolStart /\ ProfIdle /\ BlockIdle
    /\ EstIdle /\ CallIdle /\ TraceIdle /\ DispatchIdle /\ BaseFeeIdle /\ InitShared
SpecTxPool == InitTxPool /\ [][NextTxPool]_vars

InitBlock ==
    /\ BlockStart /\ ProfIdle /\ PoolIdle
    /\ EstIdle /\ CallIdle /\ TraceIdle /\ DispatchIdle /\ BaseFeeIdle /\ InitShared
SpecBlock == InitBlock /\ [][NextBlock]_vars

\* Every query of the node returns and the handler keeps running.
FairSpecBlock == SpecBlock /\ WF_blkVars(NextBlock)

\* One request of any of the four handlers.
Init == InitEstimateGas \/ InitEthCall \/ InitTrace
Next == NextEstimateGas \/ NextEthCall \/ NextTrace
Spec == Init /\ [][Next]_vars

\* The watcher goroutine is scheduled, the interpreter unwinds once its tracer
\* is stopped, and the handler's own thread keeps running.
FairSpecTrace ==
    /\ SpecTrace
    /\ WF_watchers(\E j \in 1 .. Len(watchers) : TraceWatcher(j))
    /\ WF_trPc(TraceExecReturn)
    /\ WF_trPc(TraceGetResult)

(***************************************************************************)
(* Properties of Keeper.EstimateGas                                        *)
(***************************************************************************)
\* The request passed validation and configuration, so the search ran.
EstSearched == estReq.fault = "none" /\ estReq.GasCap >= TxGas

\* The executor failed at this gas limit without aborting the estimation:
\* a VM-level failure, or the intrinsic-gas error.
ProbeFailed(o) ==
    /\ ~o.panic
    /\ \/ o.err = ErrIntrinsicGas
       \/ o.err = NoErr /\ o.VmError # VmOk

ProbeSucceeded(o) == ~o.panic /\ o.err = NoErr /\ o.VmError = VmOk

\* Every answer the executor gave agrees with a success threshold gs.
MonotoneWith(gs) ==
    \A g \in DOMAIN executor :
        IF g < gs THEN ProbeFailed(executor[g]) ELSE ProbeSucceeded(executor[g])

Thresholds == TxGas .. (MaxGasValue + 1)

CountOf(seq, x) == Cardinality({i \in 1 .. Len(seq) : seq[i] = x})

\* C1: for an executor whose success is monotonic in gas with threshold gs
\* (fails below gs, succeeds from gs on, never returns a non-intrinsic
\* execution error) and TxGas <= gs <= the initial upper bound of the search,
\* EstimateGas returns exactly gs.
C1_BinarySearchFindsThreshold ==
    (estPc = "done" /\ EstSearched) =>
        \A gs \in Thresholds :
            (gs <= gasCap /\ MonotoneWith(gs)) => estResult = GasResult(gs)

C1_Witness ==
    /\ estPc = "done"
    /\ EstSearched
    /\ Len(probes) >= 3
    /\ \E gs \in Thresholds :
        /\ TxGas < gs /\ gs < gasCap
        /\ MonotoneWith(gs)
        /\ estResult = GasResult(gs)

\* C2: when every probe fails (VM failure or intrinsic gas, no aborting
\* error), the search converges to the cap, the cap is executed exactly once,
\* as the last probe, and EstimateGas fails: with the revert-reason error when
\* that probe reverted, with "gas required exceeds allowance" when it ran out
\* of gas, with the VM error verbatim otherwise; no gas value is returned.
C2_CapExceededDistinction ==
    (estPc = "done" /\ EstSearched /\ \A g \in DOMAIN executor : ProbeFailed(executor[g])) =>
        /\ hi = gasCap
        /\ Len(probes) >= 1
        /\ probes[Len(probes)] = gasCap
        /\ CountOf(probes, gasCap) = 1
        /\ estResult.kind = "error"
        /\ LET o == executor[gasCap] IN
           /\ (o.err = NoErr /\ o.VmError = VmErrExecutionReverted) =>
                  estResult.err = PlainError("execution reverted: reason")
           /\ (o.err = NoErr /\ o.VmError = VmErrOutOfGas) =>
                  estResult.err = PlainError("gas required exceeds allowance")
           /\ (o.err = NoErr /\ o.VmError \notin {VmErrExecutionReverted, VmErrOutOfGas}) =>
                  estResult.err = PlainError(o.VmError)

C2_Witness ==
    /\ estPc = "done"
    /\ EstSearched
    /\ Len(probes) >= 3
    /\ \A g \in DOMAIN executor : ProbeFailed(executor[g])
    /\ executor[gasCap].VmError = VmErrOutOfGas
    /\ estResult = ErrorResult(PlainError("gas required exceeds allowance"))

\* C3: a request whose GasCap is below TxGas is rejected with an
\* invalid-argument error before the search begins: the executor is never
\* invoked and no hook context is created.
C3_GasCapBelowMinimumRejected ==
    (estPc # "start" /\ estReq.fault # "nilreq" /\ estReq.GasCap < TxGas) =>
        /\ estPc = "done"
        /\ estResult.kind = "error"
        /\ estResult.err.code = "InvalidArgument"
        /\ probes = << >>
        /\ executor = << >>
        /\ aspectCreated = 0

C3_Witness ==
    /\ estPc = "done"
    /\ estReq.fault = "none"
    /\ estReq.GasCap = TxGas - 1
    /\ estResult = ErrorResult(StatusError("InvalidArgument", "gas cap cannot be lower than 21,000"))

\* The smaller of the chosen upper bound and the request's GasCap.
CapAtConstruction ==
    IF ChosenHi(estReq) < estReq.GasCap THEN ChosenHi(estReq) ELSE estReq.GasCap

\* C4: a returned gas value never exceeds the request's GasCap, no probe runs
\* with a gas limit above the cap computed at construction, and that cap is
\* never raised during the search.
C4_CapNeverExceeded ==
    /\ estResult.kind = "gas" => estResult.gas <= estReq.GasCap
    /\ (estPc \in {"search", "final"} \/ (estPc = "done" /\ EstSearched)) =>
          /\ gasCap = CapAtConstruction
          /\ hi <= gasCap
          /\ \A i \in 1 .. Len(probes) : probes[i] <= CapAtConstruction

C4_Witness ==
    /\ estPc = "done"
    /\ estResult.kind = "gas"
    /\ estResult.gas = estReq.GasCap
    /\ ChosenHi(estReq) > estReq.GasCap
    /\ Len(probes) >= 2

(***************************************************************************)
(* Properties of Keeper.EthCall                                            *)
(***************************************************************************)
\* C5: two concurrent non-committing EthCall requests never observe each
\* other's state mutations, neither changes the committed state, and a call
\* issued after a committing operation completed observes its effects (every
\* committed value it reads is at least as recent as that operation).
C5_CallIsolation ==
    /\ store.by # "call"
    /\ \A c \in Calls :
         Len(callObserved[c]) > 0 =>
             LET v == callObserved[c][1] IN
             /\ v.by = "call" => v.id = c
             /\ v.by # "call" => v.id >= callBase[c]

C5_Witness ==
    /\ callPc[1] = "exec" /\ callPc[2] = "exec"
    /\ callOverlay[1] # << >> /\ callOverlay[2] # << >>
    /\ callObserved[1] = <<[by |-> "call", id |-> 1]>>
    /\ callBase[2] = 1
    /\ callObserved[2] = <<[by |-> "commit", id |-> 1]>>

(***************************************************************************)
(* Properties of Keeper.TraceTx, Keeper.TraceBlock and Keeper.traceTx      *)
(***************************************************************************)
\* The request passed validation and configuration.
TraceAccepted == trReq.fault = "none" /\ LimitAccepted(trReq.Config)

\* Logs a predecessor contributes: those of its response when it converted
\* and executed without an error, none otherwise.
PredLogs(tx) == IF tx.conv /\ tx.out = "ok" THEN tx.logs ELSE 0

RECURSIVE SumPredLogs(_, _)
SumPredLogs(seq, k) == IF k = 0 THEN 0 ELSE SumPredLogs(seq, k - 1) + PredLogs(seq[k])

\* traceTx has been entered for the target of a TraceTx request.
TargetEntered == trReq.kind = "TraceTx" /\ Len(txs) = trReq.N + 1

\* C6: in TraceTx with k predecessors the target starts from the log index m,
\* the sum of the log counts of the predecessors that executed without an
\* error, and the next log index computed for a traced target is m plus the
\* target's logs; a predecessor that fails conversion or execution adds 0 and
\* the remaining predecessors and the target are still processed.
C6_LogIndexContinuity ==
    /\ (trReq.kind = "TraceTx" /\ trPc = "preds") =>
          txConfig.LogIndex = SumPredLogs(txs, Len(txs))
    /\ TargetEntered =>
          /\ ttTxConfig.LogIndex = SumPredLogs(txs, trReq.N)
          /\ \A j \in 1 .. Len(ttReturns) :
                ttReturns[j].err = NilErr =>
                    ttReturns[j].logIndex = SumPredLogs(txs, trReq.N) + txs[trReq.N + 1].logs
    /\ (trReq.kind = "TraceTx" /\ TraceAccepted /\ trPc = "done" /\ trResult.kind # "panic") =>
          TargetEntered

C6_Witness ==
    /\ trReq.kind = "TraceTx"
    /\ trReq.N = 2
    /\ trPc = "done"
    /\ Len(txs) = 3
    /\ txs[1].out = "ok" /\ txs[1].logs = 1
    /\ txs[2].out = "err"
    /\ txs[3].logs = 1
    /\ Len(ttReturns) = 1
    /\ ttReturns[1].err = NilErr
    /\ ttReturns[1].logIndex = 2

\* The trace of a transaction fails for a reason its inputs fix.
TraceFailsByInput(tx) ==
    \/ ~tx.conv
    \/ TracerName(trReq.Config) # "" /\ TracerName(trReq.Config) \notin KnownTracers
    \/ TimeoutString(trReq.Config) # "" /\ TimeoutString(trReq.Config) \notin ParsableDurations
    \/ tx.out \in {"err", "hang"}
    \/ ~tx.result

C8_NegativeLimitRejected ==
    (trPc \notin {"idle", "start"} /\ trReq.fault # "nilreq"
        /\ Len(trReq.Config) > 0 /\ trReq.Config[1].Limit < 0) =>
        /\ trPc = "done"
        /\ trResult.kind = "error"
        /\ trResult.err.code = "InvalidArgument"
        /\ txs = << >>
        /\ aspectCreated = 0
        /\ ctxState = << >> /\ cacheState = << >>
        /\ ttReturns = << >> /\ watchers = << >>

C8_Witness ==
    /\ trPc = "done"
    /\ trReq.kind = "TraceBlock"
    /\ trReq.N = 2
    /\ trReq.fault = "none"
    /\ trReq.Config = <<TraceConfig(-1, "callTracer", "1ms")>>
    /\ trResult = ErrorResult(StatusError("InvalidArgument", "output limit cannot be negative"))

\* traceTx call j is executing its message.
Executing(j) == trPc = "exec" /\ Len(deadlines) = j

Stopped(j) == Len(tracerStop) >= j /\ tracerStop[j]

TimedOut(j) ==
    /\ Len(ttReturns) >= j
    /\ ttReturns[j] = TraceTxRet(<< >>, 0, StatusError("Internal", ErrExecutionTimeout))

TraceCalls == 1 .. MaxTxs

\* C9: if an execution is still running when its timeout elapses, the watcher
\* eventually calls Stop on its tracer with the "execution timeout" reason,
\* and a long-running execution (one that ends only when its tracer is
\* stopped) makes traceTx eventually return with the timeout error.
C9_TimeoutStopsTrace ==
    \A j \in TraceCalls :
        /\ (Executing(j) /\ deadlines[j] = "exceeded") ~> Stopped(j)
        /\ (Executing(j) /\ deadlines[j] = "exceeded" /\ txs[Len(txs)].out = "hang") ~> TimedOut(j)

C9_Witness ==
    /\ trReq.kind = "TraceBlock"
    /\ Len(txs) = 2
    /\ txs[2].out = "hang"
    /\ tracerStop[2]
    /\ TimedOut(2)
    /\ results[2].Error = ErrExecutionTimeout

(***************************************************************************)
(* Panics                                                                  *)
(***************************************************************************)
\* C10: a panic raised while executing a call (EthCall, EstimateGas, TraceTx
\* or TraceBlock) is recovered at the call's boundary and the call returns a
\* non-nil error: no handler lets the panic propagate and none returns a nil
\* response together with a nil error.
C10_PanicReportedAsError ==
    /\ \A c \in Calls : callResult[c].kind \notin {"panic", "nilnil"}
    /\ estResult.kind # "panic"
    /\ trResult.kind # "panic"

(***************************************************************************)
(* Properties of AspectNativeContract.applyMsg                             *)
(***************************************************************************)
\* The call's payload decodes to a method; its name.
Decoded == ParseMethod(dispReq.msg.Data).err = NoErr
DecodedName == ParseMethod(dispReq.msg.Data).method.Name
Dispatched == dispPc \notin {"idle", "start"}

\* C11: a call whose decoded method name, lower-cased, is not a key of the
\* registry fails with the call-contract error "method <name> not found",
\* returns nil output and 0 remaining gas, and invokes no handler.
C11_UnregisteredMethodNotFound ==
    (Dispatched /\ Decoded /\ ToLower(DecodedName) \notin DOMAIN handlers) =>
        /\ dispPc = "done"
        /\ dispResult.ret = << >>
        /\ dispResult.remainingGas = 0
        /\ dispResult.err = [class |-> ErrCallContract, text |-> <<"method", DecodedName, "not found">>]
        /\ handlerCalls = << >>

C11_Witness ==
    /\ dispPc = "done"
    /\ handlers # << >>
    /\ dispReq.msg.Data = Encoded("Mint", <<1>>)
    /\ dispReq.gas = 30000
    /\ dispResult = DispatchRet(<< >>, 0, [class |-> ErrCallContract, text |-> <<"method", "Mint", "not found">>])
    /\ handlerCalls = << >>

\* C12: when the lookup finds a handler, that handler is invoked exactly once,
\* with a context whose caller is the message's From, whose parameters are the
\* decoded ones and whose commit flag is the commit argument, and with the gas
\* argument unchanged; applyMsg returns what the handler returned.
C12_HandlerInvokedWithRequest ==
    (Dispatched /\ Decoded /\ ToLower(DecodedName) \in DOMAIN handlers) =>
        /\ Len(handlerCalls) = 1
        /\ handlerCalls[1].handler = handlers[ToLower(DecodedName)]
        /\ handlerCalls[1].ctx.from = dispReq.msg.From
        /\ handlerCalls[1].ctx.parameters = dispReq.msg.Data.params
        /\ handlerCalls[1].ctx.commit = dispReq.commit
        /\ handlerCalls[1].gas = dispReq.gas
        /\ dispPc = "handle" => handlerCalls[1].out = NotReturned /\ dispResult = NotReturned
        /\ dispPc = "done" => handlerCalls[1].out # NotReturned /\ dispResult = handlerCalls[1].out

C12_Witness ==
    /\ dispPc = "done"
    /\ dispReq = [msg |-> [From |-> "0xB", Data |-> Encoded("Deploy", <<1, 2>>)],
                  gas |-> 30000, commit |-> TRUE]
    /\ Len(handlerCalls) = 1
    /\ handlerCalls[1].handler = "DeployHandler"
    /\ handlerCalls[1].ctx.commit
    /\ dispResult = DispatchRet(<<1>>, 30000, [class |-> "", text |-> << >>])

(***************************************************************************)
(* Properties of BackendImpl.BaseFee                                       *)
(***************************************************************************)
\* The fee-market query yields a base fee.
DirectValue == bfReq.query.err = NoErr /\ bfReq.query.BaseFee # << >>

\* The block's events contain a fee-setting event whose value parses.
HasParsableFeeEvent ==
    \E i \in 1 .. Len(bfReq.events) :
        /\ IsFeeEvent(bfReq.events[i])
        /\ ParseInt(bfReq.events[i].Attributes[1].Value).ok

\* C13: when neither source yields a value (the query fails or answers a nil
\* base fee, and no event carries a parsable fee), BaseFee returns a nil base
\* fee together with a nil error.
C13_AbsentBaseFeeIsNotAnError ==
    (bfPc = "done" /\ ~DirectValue /\ ~HasParsableFeeEvent) =>
        bfResult = BaseFeeRet(<< >>, NoErr)

\* A forward scan: the last fee-setting event met, <<>> when there is none.
RECURSIVE ForwardLast(_, _, _)
ForwardLast(evs, i, found) ==
    IF i > Len(evs)
    THEN found
    ELSE ForwardLast(evs, i + 1, IF IsFeeEvent(evs[i]) THEN <<evs[i]>> ELSE found)

\* The value a forward scan obtains from the last fee-setting event.
ForwardScanValue(evs) ==
    LET last == ForwardLast(evs, 1, << >>) IN
    IF last = << >>
    THEN << >>
    ELSE LET parsed == ParseInt(last[1].Attributes[1].Value) IN
         IF parsed.ok THEN <<parsed.value>> ELSE << >>

\* C14: when the fee-market query fails, the base fee obtained by scanning the
\* events in reverse and parsing the first fee-setting event (an event of the
\* fee type with at least one attribute) equals the value a forward scan
\* obtains from the last such event; both yield no value together.
C14_ReverseScanEqualsForwardLast ==
    (bfPc = "done" /\ bfReq.query.err # NoErr) =>
        bfResult.baseFee = ForwardScanValue(bfReq.events)

C14_Witness ==
    /\ bfPc = "done"
    /\ bfReq.query.err = ErrQuery
    /\ Len(bfReq.events) = 3
    /\ bfReq.events[1] = [Type |-> EventTypeFee, Attributes |-> <<Attribute(<<"7">>)>>]
    /\ bfReq.events[2] = [Type |-> EventTypeFee, Attributes |-> <<Attribute(<<"1", "2">>)>>]
    /\ bfReq.events[3] = [Type |-> "tx", Attributes |-> <<Attribute(<<"9">>)>>]
    /\ bfResult.baseFee = <<12>>

(***************************************************************************)
(* Further properties of Keeper.EstimateGas                                *)
(***************************************************************************)
\* C15: at entry to the loop of the binary search the lower bound is strictly
\* below the upper bound, for every accepted request, whatever args.Gas and
\* the block gas limit are.
C15_LoBelowHiAtLoopEntry ==
    (estPc = "search" /\ probes = << >>) => lo < hi

IntrinsicGas(o) == ~o.panic /\ o.err = ErrIntrinsicGas

\* C16: a probe answered with the intrinsic-gas error counts as a failed probe
\* without an error: a search probe raises the lower bound to its gas limit
\* and any later probe uses more gas; the final re-execution at the cap yields
\* "gas required exceeds allowance"; EstimateGas never returns the
\* intrinsic-gas error.
C16_IntrinsicGasNeverSurfaces ==
    /\ estResult.kind = "error" => estResult.err.msg # ErrIntrinsicGas
    /\ \A i \in 1 .. Len(probes) :
          IntrinsicGas(executor[probes[i]]) =>
              /\ i < Len(probes) => probes[i + 1] > probes[i]
              /\ (i = Len(probes) /\ probes[i] # gasCap) =>
                    /\ lo = probes[i]
                    /\ estResult.kind \in {"none", "gas"}
                    /\ estResult.kind = "gas" => estResult.gas > probes[i]
              /\ (i = Len(probes) /\ probes[i] = gasCap) =>
                    /\ estPc = "done"
                    /\ estResult = ErrorResult(PlainError("gas required exceeds allowance"))

C16_Witness ==
    /\ estPc = "done"
    /\ Len(probes) >= 3
    /\ IntrinsicGas(executor[probes[1]])
    /\ probes[2] > probes[1]
    /\ probes[Len(probes)] = gasCap
    /\ IntrinsicGas(executor[probes[Len(probes)]])
    /\ estResult = ErrorResult(PlainError("gas required exceeds allowance"))

\* The executor answered with an error other than the intrinsic-gas error.
Aborting(o) == ~o.panic /\ o.err \notin {NoErr, ErrIntrinsicGas}

\* C17: a probe (of the search or the final one) answered with an execution
\* error other than the intrinsic-gas error is the last probe: EstimateGas
\* has returned exactly that error and no gas value.
C17_OtherErrorAborts ==
    \A i \in 1 .. Len(probes) :
        Aborting(executor[probes[i]]) =>
            /\ i = Len(probes)
            /\ estPc = "done"
            /\ estResult = ErrorResult(PlainError(executor[probes[i]].err))

C17_Witness ==
    /\ estPc = "done"
    /\ Len(probes) = 2
    /\ probes[2] < gasCap
    /\ lo + 1 < hi
    /\ Aborting(executor[probes[2]])
    /\ estResult = ErrorResult(PlainError(ErrExecOther))

\* C18: every probe runs with commit = false in a context branched from the
\* request context, so each probe starts from the state the request context
\* had at the call, whatever the earlier probes wrote, and the request
\* context is the same after EstimateGas as before.
C18_ProbesIsolated ==
    /\ estCtx = << >>
    /\ Len(probeScopes) = Len(probes)
    /\ \A i \in 1 .. Len(probeScopes) :
          /\ probeScopes[i].base = << >>
          /\ probeScopes[i].commit = FALSE

C18_Witness ==
    /\ estPc = "done"
    /\ Len(probes) >= 3
    /\ Len(probeScopes) = Len(probes)
    /\ estResult.kind = "gas"
    /\ estCtx = << >>

(***************************************************************************)
(* Hook (aspect) contexts                                                  *)
(***************************************************************************)
\* No request is in flight.
AllFinished ==
    /\ estPc \in {"idle", "done"}
    /\ trPc \in {"idle", "done"}
    /\ \A c \in Calls : callPc[c] \in {"idle", "done"}

\* C19: every hook context created by EthCall, an EstimateGas probe, a
\* TraceTx predecessor replay or traceTx is destroyed once before the
\* operation that created it finishes, on every exit path, a panic inside the
\* message execution included.
C19_AspectContextDestroyedOnce ==
    /\ aspectDestroyed <= aspectCreated
    /\ AllFinished => aspectDestroyed = aspectCreated

(***************************************************************************)
(* Further properties of Keeper.TraceTx                                    *)
(***************************************************************************)
\* C20: in TraceTx with k predecessors the target runs under transaction
\* index k, whichever predecessors fail conversion or execution.
C20_TargetTxIndex ==
    TargetEntered => ttTxConfig.TxIndex = trReq.N

(***************************************************************************)
(* Properties of Keeper.TraceBlock                                         *)
(***************************************************************************)
\* traceTx is running for the current transaction.
InTraceTx == trPc \in {"exec", "result"}

\* Logs transaction j of a block adds to the log index: those of its
\* response when its trace succeeded, none when its trace returned an error.
TracedLogs(j) == IF ttReturns[j].err = NilErr THEN txs[j].logs ELSE 0

RECURSIVE SumTracedLogs(_)
SumTracedLogs(k) == IF k = 0 THEN 0 ELSE SumTracedLogs(k - 1) + TracedLogs(k)

\* C21: in TraceBlock transaction i (counted from 0) is traced with
\* TxIndex = i and starts from the log index that sums the log counts of the
\* earlier transactions whose trace succeeded; a trace that returns an error
\* leaves the accumulated log index as it was.
C21_BlockLogIndexAccumulates ==
    trReq.kind = "TraceBlock" =>
        /\ InTraceTx =>
              /\ Len(ttReturns) = Len(txs) - 1
              /\ ttTxConfig = [TxIndex |-> Len(txs) - 1, LogIndex |-> SumTracedLogs(Len(txs) - 1)]
        /\ trPc = "block" =>
              /\ Len(ttReturns) = Len(txs)
              /\ txConfig.LogIndex = SumTracedLogs(Len(txs))
        /\ \A j \in 1 .. Len(ttReturns) :
              ttReturns[j].err = NilErr =>
                  /\ ttReturns[j].result = <<[TxIndex |-> j - 1]>>
                  /\ ttReturns[j].logIndex = SumTracedLogs(j)

C21_Witness ==
    /\ trReq.kind = "TraceBlock"
    /\ trPc = "done"
    /\ Len(ttReturns) = 2
    /\ txs[1].logs = 1
    /\ ttReturns[1].err = NilErr
    /\ txs[2].out = "err"
    /\ ttReturns[2].err # NilErr
    /\ txConfig = [TxIndex |-> 1, LogIndex |-> 1]

(***************************************************************************)
(* Further properties of Keeper.TraceTx and Keeper.traceTx                 *)
(***************************************************************************)
UnparsableTimeout ==
    TimeoutString(trReq.Config) # "" /\ TimeoutString(trReq.Config) \notin ParsableDurations

\* C22: a TraceTx request whose configuration carries an unparsable timeout
\* string is rejected at once with an invalid-argument error: no predecessor
\* is executed before the rejection, the target is never executed, and a
\* request whose target converts to a message ends with that error.
C22_UnparsableTimeoutRejected ==
    (trReq.kind = "TraceTx" /\ TraceAccepted /\ UnparsableTimeout /\ trPc \notin {"idle", "start"}) =>
        /\ ctxState = << >>
        /\ \A i \in 1 .. Len(txs) : i <= trReq.N => ~txs[i].conv
        /\ ~InTraceTx
        /\ (trPc = "done" /\ trResult.kind # "panic" /\ txs[Len(txs)].conv) =>
              /\ trResult.kind = "error"
              /\ trResult.err.code = "InvalidArgument"

\* traceTx call j spawned a watcher and has returned.
Returned(j) ==
    /\ Len(watchers) >= j
    /\ watchers[j] # "none"
    /\ Len(watchers) > j \/ trPc \in {"block", "done"}

WatcherDone(j) == Len(watchers) >= j /\ watchers[j] = "done"

\* C23: the watcher goroutine of every traceTx call terminates once the call
\* has returned, whatever path it returned by, and the handler never waits
\* for it: reading the tracer's result, and the return of an execution that
\* ends by itself, are possible whatever the watcher is doing.
C23_WatcherRetired ==
    /\ \A j \in TraceCalls : Returned(j) ~> WatcherDone(j)
    /\ [](trPc = "result" => ENABLED TraceGetResult)
    /\ []((trPc = "exec" /\ txs[Len(txs)].out # "hang") => ENABLED TraceExecReturn)

C23_Witness ==
    /\ trReq.kind = "TraceBlock"
    /\ trPc = "done"
    /\ Len(ttReturns) = 2
    /\ ttReturns[1].err = NilErr
    /\ txs[2].out = "err"
    /\ deadlines = <<"canceled", "canceled">>
    /\ watchers = <<"done", "done">>

\* C24: Stop is called on a tracer only when its deadline elapsed: when
\* traceTx returned, or the request's context was canceled, before the
\* deadline elapsed, the watcher ends without calling Stop.
C24_StopOnlyOnDeadline ==
    \A j \in 1 .. Len(tracerStop) :
        /\ tracerStop[j] => deadlines[j] = "exceeded"
        /\ (watchers[j] = "done" /\ deadlines[j] = "canceled") => ~tracerStop[j]

C24_Witness ==
    /\ trPc = "exec"
    /\ reqCtx = "canceled"
    /\ Len(watchers) = 2
    /\ watchers = <<"done", "done">>
    /\ deadlines = <<"canceled", "canceled">>
    /\ tracerStop = <<FALSE, FALSE>>

\* The JSON tracer configuration the request carries, <<>> when it has none.
RequestedJsonConfig ==
    IF Len(trReq.Config) > 0 /\ trReq.Config[1].TracerJsonConfig # ""
    THEN <<trReq.Config[1].TracerJsonConfig>>
    ELSE << >>

\* C25: a named tracer is constructed with the JSON tracer configuration of
\* the request, in TraceTx and for every transaction of TraceBlock; with an
\* unknown tracer name the traced transaction is never executed.
C25_TracerGetsJsonConfig ==
    /\ (tracerBuilt # << >> /\ tracerBuilt[1].Tracer # "") =>
          tracerBuilt[1].Config = RequestedJsonConfig
    /\ (TracerName(trReq.Config) # "" /\ TracerName(trReq.Config) \notin KnownTracers) =>
          ~InTraceTx

\* Transactions whose effects are in a context state.
Range(seq) == {seq[i] : i \in 1 .. Len(seq)}

\* C28: in TraceBlock a transaction whose trace returned an error leaves no
\* effect in the block-level context: the following transactions start from
\* the state before it was attempted.
C28_FailedTraceDiscarded ==
    trReq.kind = "TraceBlock" =>
        \A j \in 1 .. Len(ttReturns) :
            ttReturns[j].err # NilErr => j \notin Range(ctxState)

\* C29: in TraceBlock every transaction executes on an overlay branched from
\* the block-level context, the overlay of a successfully traced transaction
\* is written back before the next one starts, so a transaction runs on the
\* effects of every earlier successfully traced one; in TraceTx the overlay
\* of the target is never written back.
C29_OverlayWriteBack ==
    /\ trReq.kind = "TraceBlock" =>
          /\ InTraceTx =>
                /\ Len(txs) \notin Range(ctxState)
                /\ \A j \in 1 .. Len(ttReturns) :
                      ttReturns[j].err = NilErr => j \in Range(cacheState)
          /\ \A j \in 1 .. Len(ttReturns) :
                ttReturns[j].err = NilErr => j \in Range(ctxState)
    /\ trReq.kind = "TraceTx" => (trReq.N + 1) \notin Range(ctxState)

C29_Witness ==
    /\ trReq.kind = "TraceBlock"
    /\ trPc = "result"
    /\ Len(txs) = 2
    /\ ttReturns[1].err = NilErr
    /\ ctxState = <<1>>
    /\ cacheState = <<1, 2>>

(***************************************************************************)
(* Properties of the handler registry                                      *)
(***************************************************************************)
\* Two method names that differ in letter case only.
CaseFold(name) ==
    CASE name \in {"deploy", "Deploy"} -> "DEPLOY"
      [] name \in {"bind", "BIND"} -> "BIND"
      [] name \in {"versionof", "versionOf"} -> "VERSIONOF"
      [] name \in {"mint", "Mint"} -> "MINT"
      [] OTHER -> name

RegisteredHandlers == {HandlerTypes[i] : i \in 1 .. Len(HandlerTypes)}

\* C26: every handler Init registers is stored under the lower-cased form of
\* its method name, and a call whose decoded method name equals a registered
\* handler's method name in any letter case is dispatched to that handler.
C26_RegistryKeyedByLowerCase ==
    handlers # << >> =>
        /\ \A h \in RegisteredHandlers :
              /\ ToLower(Method(h)) \in DOMAIN handlers
              /\ handlers[ToLower(Method(h))] = h
        /\ (Dispatched /\ Decoded) =>
              \A h \in RegisteredHandlers :
                  CaseFold(DecodedName) = CaseFold(Method(h)) =>
                      /\ Len(handlerCalls) = 1
                      /\ handlerCalls[1].handler = h

C26_Witness ==
    /\ dispPc = "done"
    /\ handlers # << >>
    /\ dispReq.msg.Data = Encoded("BIND", << >>)
    /\ Len(handlerCalls) = 1
    /\ handlerCalls[1].handler = "BindHandler"

\* C27: once Init has filled the registry no dispatch changes it, whether the
\* dispatch succeeds, fails to parse or names an unknown method; and each
\* dispatch invokes exactly one handler when the method is registered and
\* none otherwise.
C27_RegistryClosed ==
    /\ [][handlers # << >> => handlers' = handlers]_vars
    /\ [](Len(handlerCalls) <= 1)
    /\ []((dispPc \in {"handle", "done"} /\ Decoded) =>
             (Len(handlerCalls) = 1 <=> ToLower(DecodedName) \in DOMAIN handlers))
    /\ []((dispPc = "done" /\ ~Decoded) => handlerCalls = << >>)

C27_Witness ==
    /\ dispPc = "done"
    /\ dispCount = 2
    /\ handlers = registerAll(<< >>, HandlerTypes, Len(HandlerTypes))
    /\ dispReq.msg.Data = Encoded("mint", <<1>>)
    /\ handlerCalls = << >>

(***************************************************************************)
(* Further properties of Keeper.EstimateGas                                *)
(***************************************************************************)
\* C30: whatever the executor answers, a gas value EstimateGas returns is one
\* at which a probe ran during this call and succeeded: no execution error
\* and an empty VM error.
C30_ReturnedGasWasProbed ==
    estResult.kind = "gas" =>
        /\ \E i \in 1 .. Len(probes) : probes[i] = estResult.gas
        /\ estResult.gas \in DOMAIN executor
        /\ ProbeSucceeded(executor[estResult.gas])

C30_Witness ==
    /\ estPc = "done"
    /\ estResult.kind = "gas"
    /\ estResult.gas = gasCap
    /\ Len(probes) >= 3
    /\ probes[Len(probes)] = gasCap
    /\ ProbeSucceeded(executor[gasCap])
    /\ \A i \in 1 .. (Len(probes) - 1) : ProbeFailed(executor[probes[i]])

(***************************************************************************)
(* Further properties of BackendImpl.BaseFee                               *)
(***************************************************************************)
\* C31: BaseFee returns the fee-market value, and does not scan the block's
\* events, whenever the query succeeds with a non-nil base fee; the events
\* are scanned only when the query fails or answers a nil base fee, and the
\* scan then returns the parsed value of the most recent fee-setting event,
\* never that of an older one, together with a nil error.
C31_TwoTierBaseFee ==
    /\ DirectValue =>
          /\ bfPc # "scan"
          /\ bfI = 0
          /\ bfPc = "done" => bfResult = BaseFeeRet(bfReq.query.BaseFee, NoErr)
    /\ (~DirectValue /\ bfPc = "done") =>
          /\ bfResult.baseFee = ForwardScanValue(bfReq.events)
          /\ bfResult.baseFee # << >> => bfResult.err = NoErr

C31_Witness ==
    /\ bfPc = "done"
    /\ bfReq.query = [err |-> NoErr, BaseFee |-> << >>]
    /\ Len(bfReq.events) = 3
    /\ bfReq.events[1] = [Type |-> EventTypeFee, Attributes |-> <<Attribute(<<"1", "2">>)>>]
    /\ bfReq.events[2] = [Type |-> EventTypeFee, Attributes |-> <<Attribute(<<"7">>)>>]
    /\ bfReq.events[3] = [Type |-> EventTypeFee, Attributes |-> << >>]
    /\ bfResult = BaseFeeRet(<<7>>, NoErr)

(***************************************************************************)
(* Bounds and termination of Keeper.EstimateGas                            *)
(***************************************************************************)
\* The upper bound the search is said to start from: the caller-supplied gas
\* when there is one, otherwise the block gas limit when it is positive and
\* the request's GasCap when it is not, reduced to GasCap when above it.
StatedInitialHi ==
    LET chosen == IF Len(estReq.Gas) > 0
                  THEN estReq.Gas[1]
                  ELSE IF Len(estReq.Block) > 0 /\ estReq.Block[1] > 0
                       THEN estReq.Block[1]
                       ELSE estReq.GasCap
    IN IF chosen > estReq.GasCap THEN estReq.GasCap ELSE chosen

\* C32: the search of EstimateGas starts from the caller-supplied gas when
\* one is supplied, otherwise from the block gas limit (from the request's
\* GasCap when no positive block gas limit is set), in both cases reduced to
\* the request's GasCap when above it.
C32_InitialUpperBound ==
    /\ (estPc = "search" /\ probes = << >>) => hi = StatedInitialHi
    /\ (estPc \in {"search", "final"} \/ (estPc = "done" /\ EstSearched)) =>
          gasCap = StatedInitialHi

\* C33: EstimateGas terminates when every executor invocation returns: the
\* probes are issued one at a time, each probe of the search that does not
\* end the request strictly shrinks the interval (lo, hi], moving one end
\* inwards, and at most one further probe, the re-execution at the cap,
\* follows the search.
C33_EstimateGasTerminates ==
    /\ <>(estPc = "done")
    /\ [][Len(probes') <= Len(probes) + 1]_vars
    /\ [][(estPc = "search" /\ estPc' = "search") =>
             /\ probes' = Append(probes, Mid(lo, hi))
             /\ lo <= lo' /\ hi' <= hi
             /\ hi' - lo' < hi - lo]_vars
    /\ [][estPc = "final" => (estPc' = "done" /\ Len(probes') = Len(probes) + 1)]_vars
    /\ [][estPc = "done" => probes' = probes]_vars

C33_Witness ==
    /\ estPc = "done"
    /\ estResult.kind = "gas"
    /\ Len(probes) = 4
    /\ probes[4] = gasCap
    /\ gasCap = TxGas + MaxExtraGas
    /\ hi = gasCap
    /\ lo = gasCap - 1

(***************************************************************************)
(* Properties of DebugAPI.StartCPUProfile and DebugAPI.StopCPUProfile      *)
(***************************************************************************)
\* A CPU profile is active for the handler: it holds a profile file.
ProfileActive == handler.cpuFile # NoFile

\* Callers between Lock and Unlock.
InCritical == {c \in Callers : profCallers[c].pc \in {"switch", "create", "stop", "unlock"}}

\* Caller c has decided its call and still holds the mutex.
Decided(c, op) == profCallers[c].pc = "unlock" /\ profCallers[c].op = op

\* C34: whatever the interleaving of concurrent StartCPUProfile and
\* StopCPUProfile calls (the cpu-profile flag not set), at most one CPU
\* profile is active: the calls exclude each other, the runtime profiler runs
\* only while the handler holds a file, and a Start gets as far as starting
\* the profiler only while none is active; Start while one is active fails
\* with "already in progress" and leaves file and filename as they are; Stop
\* while none is active fails with "not in progress"; a successful Stop leaves
\* the handler cleared, so that a later Start succeeds.
C34_OneCPUProfile ==
    /\ Cardinality(InCritical) <= 1
    /\ pprofCPU => ProfileActive
    /\ \A c \in Callers :
          /\ profCallers[c].pc = "create" => (~ProfileActive /\ ~pprofCPU)
          /\ profCallers[c].pc = "stop" => ProfileActive
          /\ profCallers[c].ret = ErrAlreadyInProgress =>
                (profCallers[c].op = "start" /\ (Decided(c, "start") => ProfileActive))
          /\ profCallers[c].ret = ErrNotInProgress =>
                (profCallers[c].op = "stop" /\ (Decided(c, "stop") => ~ProfileActive /\ ~pprofCPU))
          /\ (Decided(c, "stop") /\ profCallers[c].ret = "nil") =>
                (handler.cpuFile = NoFile /\ handler.cpuFilename = "" /\ ~pprofCPU)
          /\ (Decided(c, "start") /\ profCallers[c].ret = "nil") =>
                /\ handler.cpuFile = <<profCallers[c].file>>
                /\ handler.cpuFilename = profCallers[c].file
                /\ pprofCPU
          /\ (Decided(c, "start") /\ ~ProfileActive) =>
                profCallers[c].ret \in {ErrCreate, ErrExpandHome}
          /\ profCallers[c].ret \notin {ErrInUse, ErrCloseProfile, ErrConfigProfile}

C34_Witness ==
    /\ handler = [mu |-> 1, cpuFile |-> <<"~/cpu.prof">>, cpuFilename |-> "~/cpu.prof"]
    /\ pprofCPU
    /\ profCallers[1] = [pc |-> "unlock", op |-> "start", file |-> "~/cpu.prof", ret |-> "nil", calls |-> 2]
    /\ profCallers[2] = [pc |-> "idle", op |-> "stop", file |-> "", ret |-> "nil", calls |-> 1]

(***************************************************************************)
(* Properties of TxPoolAPI                                                 *)
(***************************************************************************)
\* The (account, nonce) keys of a two-level map.
Keys(m) == UNION {{<<account, nonce>> : nonce \in DOMAIN m[account]} : account \in DOMAIN m}

\* C35: for the same pending set Content and Inspect list the same (account,
\* nonce) keys under "pending" and nothing under "queued", in agreement with
\* Status, which reports queued = 0.
C35_ContentAgreesWithInspect ==
    /\ (poolOut.content # << >> /\ poolOut.inspect # << >>) =>
          /\ Keys(poolOut.content[1].pending) = Keys(poolOut.inspect[1].pending)
          /\ poolOut.content[1].queued = EmptyMap
          /\ poolOut.inspect[1].queued = EmptyMap
    /\ poolOut.status # << >> => poolOut.status[1].queued = 0

(***************************************************************************)
(* Properties of BackendImpl.ArtBlockByNumber                              *)
(***************************************************************************)
\* The workaround was taken: ArtBlockByNumber invoked itself.
Retried == Len(blk.invocations) > 1

\* C36: ArtBlockByNumber terminates: it invokes itself only for the latest
\* sentinel with a resolved height above 1 whose block result is missing, the
\* inner invocation asks for the explicit height - 1, so there is at most one
\* inner invocation per request, and a block result missing again there yields
\* an error.
C36_ArtBlockByNumberTerminates ==
    /\ <>(blk.pc = "done")
    /\ [](Len(blk.invocations) <= 2)
    /\ [](Retried =>
             /\ blkReq.number = LatestBlockNumber
             /\ blkReq.latest > 1
             /\ ~blkReq.results[blkReq.latest]
             /\ blk.invocations = <<LatestBlockNumber, blkReq.latest - 1>>)
    /\ []((Retried /\ blk.pc = "done" /\ blkReq.blocks[blkReq.latest - 1] = "ok"
              /\ ~blkReq.results[blkReq.latest - 1]) =>
             blk.result = ErrBlockResult(blkReq.latest - 1))

C36_Witness ==
    /\ blk.pc = "done"
    /\ blkReq.number = LatestBlockNumber
    /\ blkReq.latest = 3
    /\ blkReq.blocks = <<"ok", "ok", "ok">>
    /\ blkReq.results = <<TRUE, FALSE, FALSE>>
    /\ blk.invocations = <<LatestBlockNumber, 2>>
    /\ blk.result = ErrBlockResult(2)

====
